---- MODULE Spec2Model ----
(***************************************************************************)
(* A model of tw2panda: the conversion of Tailwind class lists to Panda    *)
(* style objects (tw-class-list-to-panda-styles.ts, rewrite-html-to-       *)
(* panda.ts), the design-system cache (tw-context.ts), the batch processor *)
(* (batch-processor.ts) and the project analysis (analyze-project.ts).     *)
(*                                                                         *)
(* Text is modelled as a sequence of one-character strings, so that the    *)
(* regular expressions and replacements of the source are computed and     *)
(* not assumed.  A comment above each text constant gives it in plain.     *)
(***************************************************************************)
EXTENDS Integers, Sequences, FiniteSets, TLC

VARIABLES
  themeSpacing,       \* the design system: what resolveThemeValue("--spacing") gives
  classString,        \* convertClassesToPandaString: the class list given
  converted,          \* convertClassesToPandaString: what it returned
  htmlResult,         \* rewriteHtmlToPanda: what it returned
  cachedDesignSystem, \* tw-context.ts: module-level cache, instance
  cachedCss,          \* tw-context.ts: module-level cache, key
  built,              \* number of design systems constructed so far
  calls,              \* createTailwindContext: one record per caller
  history,            \* the calls and resets completed, oldest first
  batch,              \* batchProcess: its locals
  tasks,              \* batchProcess: the per-file callbacks of the chunk
  disk,               \* the files written by processFile
  analysis,           \* analyzeProject: its locals and its result
  inference,          \* inferVariants: its locals and its result
  rewrite,            \* rewriteTwFileContentToPanda: the file given and what it returned
  wizard,             \* runInteractive: its position, its context and the prompts answered
  watch               \* watchFiles: the watched file, the events queued and the writes

vars == <<themeSpacing, classString, converted, htmlResult, cachedDesignSystem, cachedCss,
          built, calls, history, batch, tasks, disk, analysis, inference, rewrite, wizard,
          watch>>

\* the variables of each part of the program
stylesVars == <<themeSpacing, classString, converted>>

cacheVars == <<cachedDesignSystem, cachedCss, built, calls, history>>

batchVars == <<batch, tasks, disk>>

fileVars == <<rewrite, wizard, watch>>

(***************************************************************************)
(* Text helpers (String.prototype.*, RegExp)                               *)
(***************************************************************************)

Digits == {"0","1","2","3","4","5","6","7","8","9"}

\* \w of a JavaScript regular expression
WordChars ==
  Digits \cup {"_"}
  \cup {"a","b","c","d","e","f","g","h","i","j","k","l","m",
        "n","o","p","q","r","s","t","u","v","w","x","y","z"}
  \cup {"A","B","C","D","E","F","G","H","I","J","K","L","M",
        "N","O","P","Q","R","S","T","U","V","W","X","Y","Z"}

\* \s, as far as the texts of the model go
Whitespace == {" ", "\n", "\t"}

\* String.prototype.toUpperCase on one character
ToUpperCase(c) ==
  CASE c = "a" -> "A" [] c = "b" -> "B" [] c = "c" -> "C" [] c = "d" -> "D"
    [] c = "e" -> "E" [] c = "f" -> "F" [] c = "g" -> "G" [] c = "h" -> "H"
    [] c = "i" -> "I" [] c = "j" -> "J" [] c = "k" -> "K" [] c = "l" -> "L"
    [] c = "m" -> "M" [] c = "n" -> "N" [] c = "o" -> "O" [] c = "p" -> "P"
    [] c = "q" -> "Q" [] c = "r" -> "R" [] c = "s" -> "S" [] c = "t" -> "T"
    [] c = "u" -> "U" [] c = "v" -> "V" [] c = "w" -> "W" [] c = "x" -> "X"
    [] c = "y" -> "Y" [] c = "z" -> "Z" [] OTHER -> c

\* s.substring(i - 1), 1-based
From(s, i) == IF i > Len(s) THEN <<>> ELSE SubSeq(s, i, Len(s))

\* p occurs in s at position i
OccursAt(s, p, i) ==
  /\ i >= 1
  /\ i + Len(p) - 1 <= Len(s)
  /\ \A j \in 1..Len(p) : s[i + j - 1] = p[j]

StartsWith(s, p) == OccursAt(s, p, 1)

\* String.prototype.includes
Includes(s, p) == \E i \in 1..(Len(s) + 1) : OccursAt(s, p, i)

\* String.prototype.indexOf, 1-based; 0 when p does not occur
IndexOf(s, p) ==
  IF Includes(s, p)
    THEN CHOOSE i \in 1..(Len(s) + 1) :
           /\ OccursAt(s, p, i)
           /\ \A j \in 1..(i - 1) : ~OccursAt(s, p, j)
    ELSE 0

\* String.prototype.replace with a string pattern: the first occurrence only
RECURSIVE ReplaceFirst(_, _, _)
ReplaceFirst(s, p, r) ==
  IF StartsWith(s, p) THEN r \o From(s, Len(p) + 1)
  ELSE IF s = <<>> THEN <<>>
  ELSE <<Head(s)>> \o ReplaceFirst(Tail(s), p, r)

RECURSIVE TrimStart(_)
TrimStart(s) ==
  IF s # <<>> /\ Head(s) \in Whitespace THEN TrimStart(Tail(s)) ELSE s

RECURSIVE TrimEnd(_)
TrimEnd(s) ==
  IF s # <<>> /\ s[Len(s)] \in Whitespace
    THEN TrimEnd(SubSeq(s, 1, Len(s) - 1))
    ELSE s

\* String.prototype.trim
Trim(s) == TrimEnd(TrimStart(s))

\* the index after the longest run of characters of set cs that starts at i
RECURSIVE SkipWhile(_, _, _)
SkipWhile(s, i, cs) ==
  IF i <= Len(s) /\ s[i] \in cs THEN SkipWhile(s, i + 1, cs) ELSE i

\* s.replace(/c/g, r) for a one-character pattern c
RECURSIVE ReplaceAllChar(_, _, _)
ReplaceAllChar(s, c, r) ==
  IF s = <<>> THEN <<>>
  ELSE (IF Head(s) = c THEN r ELSE <<Head(s)>>) \o ReplaceAllChar(Tail(s), c, r)

\* the elements of a sequence
Range(q) == {q[i] : i \in DOMAIN q}

\* [...new Set(q)]: the first occurrence of each element, in order
RECURSIVE Dedupe(_)
Dedupe(q) ==
  IF q = <<>> THEN <<>>
  ELSE LET init == Dedupe(SubSeq(q, 1, Len(q) - 1))
           last == q[Len(q)]
       IN IF last \in Range(init) THEN init ELSE Append(init, last)

\* Array.prototype.filter
Filter(q, Keep(_)) == SelectSeq(q, Keep)

\* Array.prototype.map
Map(q, F(_)) == [i \in 1..Len(q) |-> F(q[i])]

\* the concatenation of a sequence of sequences
RECURSIVE Flatten(_)
Flatten(qq) == IF qq = <<>> THEN <<>> ELSE Head(qq) \o Flatten(Tail(qq))

(***************************************************************************)
(* tw-class-list-to-panda-styles.ts                                        *)
(***************************************************************************)

\* str.replace(/(-\w)/g, (group) => (group[1] ?? "").toUpperCase())
RECURSIVE kebabToCamel(_)
kebabToCamel(str) ==
  IF str = <<>> THEN <<>>
  ELSE IF Head(str) = "-" /\ Len(str) >= 2 /\ str[2] \in WordChars
    THEN <<ToUpperCase(str[2])>> \o kebabToCamel(From(str, 3))
    ELSE <<Head(str)>> \o kebabToCamel(Tail(str))

(* ----- the Tailwind design system (an oracle) and the Panda context ---- *)

\* The theme of the design system but for --spacing: variable name -> value.
\*   --color-blue-500: #3b82f6
\*   --color-red-500: oklch(63.7% 0.237 25.331)
\*   --color-white: #fff          --color-brand: var(--color-blue-500)
ThemeValues ==
  (<<"-","-","c","o","l","o","r","-","b","l","u","e","-","5","0","0">> :> <<"#","3","b","8","2","f","6">>)
  @@ (<<"-","-","c","o","l","o","r","-","r","e","d","-","5","0","0">> :> <<"o","k","l","c","h","(","6","3",".","7","%"," ","0",".","2","3","7"," ","2","5",".","3","3","1",")">>)
  @@ (<<"-","-","c","o","l","o","r","-","w","h","i","t","e">> :> <<"#","f","f","f">>)
  @@ (<<"-","-","c","o","l","o","r","-","b","r","a","n","d">> :> <<"v","a","r","(","-","-","c","o","l","o","r","-","b","l","u","e","-","5","0","0",")">>)

\* What the themes of the model give for --spacing: 0.25rem (the default
\* theme), 4px, or nothing (a theme without the variable)
ThemeSpacings ==
  {[found |-> TRUE, value |-> <<"0",".","2","5","r","e","m">>],
   [found |-> TRUE, value |-> <<"4","p","x">>],
   [found |-> FALSE, value |-> <<>>]}

\* tailwind.resolveThemeValue(path): [found, value]
resolveThemeValue(path) ==
  IF path = <<"-","-","s","p","a","c","i","n","g">> THEN themeSpacing
  ELSE IF path \in DOMAIN ThemeValues
    THEN [found |-> TRUE, value |-> ThemeValues[path]]
    ELSE [found |-> FALSE, value |-> <<>>]

Decl(p, v) == [prop |-> p, value |-> v]

\* The declarations the design system emits for a utility (without its
\* variants); a utility that is not listed has no CSS.
UtilityCss ==
  (<<"f","l","e","x">> :> <<Decl(<<"d","i","s","p","l","a","y">>, <<"f","l","e","x">>)>>)
  @@ (<<"h","i","d","d","e","n">> :> <<Decl(<<"d","i","s","p","l","a","y">>, <<"n","o","n","e">>)>>)
  @@ (<<"t","r","u","n","c","a","t","e">> :> <<Decl(<<"o","v","e","r","f","l","o","w">>, <<"h","i","d","d","e","n">>),
                       Decl(<<"t","e","x","t","-","o","v","e","r","f","l","o","w">>, <<"e","l","l","i","p","s","i","s">>),
                       Decl(<<"w","h","i","t","e","-","s","p","a","c","e">>, <<"n","o","w","r","a","p">>)>>)
  @@ (<<"b","g","-","b","l","u","e","-","5","0","0">> :> <<Decl(<<"b","a","c","k","g","r","o","u","n","d","-","c","o","l","o","r">>, <<"v","a","r","(","-","-","c","o","l","o","r","-","b","l","u","e","-","5","0","0",")">>)>>)
  @@ (<<"b","g","-","r","e","d","-","5","0","0">> :> <<Decl(<<"b","a","c","k","g","r","o","u","n","d","-","c","o","l","o","r">>, <<"v","a","r","(","-","-","c","o","l","o","r","-","r","e","d","-","5","0","0",")">>)>>)
  @@ (<<"b","g","-","b","r","a","n","d">> :> <<Decl(<<"b","a","c","k","g","r","o","u","n","d","-","c","o","l","o","r">>, <<"v","a","r","(","-","-","c","o","l","o","r","-","b","r","a","n","d",")">>)>>)
  @@ (<<"t","e","x","t","-","w","h","i","t","e">> :> <<Decl(<<"c","o","l","o","r">>, <<"v","a","r","(","-","-","c","o","l","o","r","-","w","h","i","t","e",")">>)>>)
  @@ (<<"p","-","4">> :> <<Decl(<<"p","a","d","d","i","n","g">>, <<"c","a","l","c","(","v","a","r","(","-","-","s","p","a","c","i","n","g",")"," ","*"," ","4",")">>)>>)
  @@ (<<"f","r","o","m","-","r","e","d","-","5","0","0">> :> <<Decl(<<"-","-","t","w","-","g","r","a","d","i","e","n","t","-","f","r","o","m">>, <<"v","a","r","(","-","-","c","o","l","o","r","-","r","e","d","-","5","0","0",")">>),
                           Decl(<<"-","-","t","w","-","g","r","a","d","i","e","n","t","-","s","t","o","p","s">>, <<"v","a","r","(","-","-","t","w","-","g","r","a","d","i","e","n","t","-","v","i","a","-","s","t","o","p","s",")">>)>>)

\* The variants the design system knows.
KnownVariants == {<<"h","o","v","e","r">>, <<"d","i","s","a","b","l","e","d">>, <<"d","a","r","k">>, <<"m","d">>, <<"l","g">>, <<"g","r","o","u","p","-","h","o","v","e","r">>, <<"m","a","x","-","m","d">>}

\* The class names the model draws class lists from.
\*   utilities, with and without variants and the important flag; the marker
\*   classes group and peer/menu; the custom classes btn and card--wide
ClassUniverse ==
  {<<"f","l","e","x">>, <<"h","i","d","d","e","n">>, <<"t","r","u","n","c","a","t","e">>, <<"b","g","-","b","l","u","e","-","5","0","0">>, <<"b","g","-","r","e","d","-","5","0","0">>, <<"b","g","-","b","r","a","n","d">>,
   <<"t","e","x","t","-","w","h","i","t","e">>, <<"p","-","4">>, <<"f","r","o","m","-","r","e","d","-","5","0","0">>,
   <<"h","o","v","e","r",":","b","g","-","r","e","d","-","5","0","0">>, <<"h","o","v","e","r",":","b","g","-","b","l","u","e","-","5","0","0">>, <<"d","a","r","k",":","t","e","x","t","-","w","h","i","t","e">>, <<"m","d",":","f","l","e","x">>, <<"l","g",":","h","i","d","d","e","n">>,
   <<"d","i","s","a","b","l","e","d",":","h","i","d","d","e","n">>, <<"m","d",":","h","o","v","e","r",":","b","g","-","b","l","u","e","-","5","0","0">>, <<"h","o","v","e","r",":","m","d",":","b","g","-","r","e","d","-","5","0","0">>,
   <<"g","r","o","u","p","-","h","o","v","e","r",":","f","l","e","x">>, <<"m","a","x","-","m","d",":","d","a","r","k",":","f","l","e","x">>,
   <<"b","g","-","b","l","u","e","-","5","0","0","!">>, <<"!","b","g","-","r","e","d","-","5","0","0">>, <<"h","o","v","e","r",":","p","-","4","!">>, <<"f","l","e","x","!">>,
   <<"g","r","o","u","p">>, <<"p","e","e","r","/","m","e","n","u">>, <<"b","t","n">>, <<"c","a","r","d","-","-","w","i","d","e">>}

\* panda.conditions.values: the condition names Panda registers
ConditionValues ==
  {<<"_","h","o","v","e","r">>, <<"_","f","o","c","u","s">>, <<"_","d","i","s","a","b","l","e","d">>, <<"_","d","a","r","k">>, <<"_","g","r","o","u","p","H","o","v","e","r">>, <<"s","m">>, <<"m","d">>, <<"l","g">>, <<"x","l">>}

\* The properties whose Panda utility has a list of values
\* (panda.utility.getPropertyValues(panda.config.utilities[propName]))
PropertiesWithValues ==
  {<<"b","a","c","k","g","r","o","u","n","d","C","o","l","o","r">>, <<"c","o","l","o","r">>, <<"p","a","d","d","i","n","g">>, <<"f","o","n","t","S","i","z","e">>, <<"b","o","r","d","e","r","R","a","d","i","u","s">>}

\* The parts of a class name between the top-level colons (a colon inside
\* square brackets does not separate): <<variant, ..., utility>>
RECURSIVE SplitVariants(_, _, _)
SplitVariants(s, depth, cur) ==
  IF s = <<>> THEN <<cur>>
  ELSE LET c == Head(s)
       IN IF c = ":" /\ depth = 0
            THEN <<cur>> \o SplitVariants(Tail(s), 0, <<>>)
            ELSE SplitVariants(Tail(s),
                               IF c = "[" THEN depth + 1
                               ELSE IF c = "]" /\ depth > 0 THEN depth - 1
                               ELSE depth,
                               Append(cur, c))

\* A utility name without its important flag (leading or trailing "!")
StripImportant(u) ==
  IF u # <<>> /\ Head(u) = "!" THEN Tail(u)
  ELSE IF u # <<>> /\ u[Len(u)] = "!" THEN SubSeq(u, 1, Len(u) - 1)
  ELSE u

\* The candidate the design system reads from the parts of a class name:
\* its variants, its utility and whether it has the important flag
Candidate(parts) ==
  [variants  |-> SubSeq(parts, 1, Len(parts) - 1),
   utility   |-> StripImportant(parts[Len(parts)]),
   important |-> StripImportant(parts[Len(parts)]) # parts[Len(parts)]]

\* The rule of a candidate: [css, decls]; css is FALSE for null, decls are
\* the declarations of the rule, which carry " !important" when the class
\* has the important flag
CandidateRule(c) ==
  IF /\ \A i \in DOMAIN c.variants : c.variants[i] \in KnownVariants
     /\ c.utility \in DOMAIN UtilityCss
    THEN [css   |-> TRUE,
          decls |-> IF c.important
                      THEN [i \in DOMAIN UtilityCss[c.utility] |->
                              Decl(UtilityCss[c.utility][i].prop,
                                   UtilityCss[c.utility][i].value \o <<" ","!","i","m","p","o","r","t","a","n","t">>)]
                      ELSE UtilityCss[c.utility]]
    ELSE [css |-> FALSE, decls |-> <<>>]

\* tailwind.candidatesToCss([cls])[0]
candidatesToCss(cls) == CandidateRule(Candidate(SplitVariants(cls, 0, <<>>)))

\* tailwind.parseCandidate(text).length > 0
IsCandidate(text) == candidatesToCss(text).css

\* The ClassEntry of a class name whose candidate is c:
\*   [parsed, className, modifiers, value, isImportant]
ClassEntry(className, c) ==
  [parsed      |-> c.utility # <<>>,
   className   |-> className,
   modifiers   |-> c.variants,
   value       |-> IF c.utility = <<>> \/ IndexOf(c.utility, <<"-">>) = 0 THEN c.utility
                   ELSE IF Head(c.utility) = "[" THEN c.utility
                   ELSE From(c.utility, IndexOf(c.utility, <<"-">>) + 1),
   isImportant |-> c.important]

\* parseTwClassName(className): the candidate of spec section 4.1, the
\* modifiers in the order they are written
parseTwClassName(className) ==
  ClassEntry(className, Candidate(SplitVariants(className, 0, <<>>)))

(* ----- resolveCssVariable, varNameToTokenPath ----- *)

\* The first match of /var\(([^)]+)\)/ at or after position i:
\* [found, start, end, group]
RECURSIVE VarMatchFrom(_, _)
VarMatchFrom(value, i) ==
  IF i > Len(value) THEN [found |-> FALSE, start |-> 0, end |-> 0, group |-> <<>>]
  ELSE LET close == SkipWhile(value, i + 4, {value[k] : k \in DOMAIN value} \ {")"})
       IN IF /\ OccursAt(value, <<"v","a","r","(">>, i)
             /\ close > i + 4
             /\ close <= Len(value)
            THEN [found |-> TRUE, start |-> i, end |-> close,
                  group |-> SubSeq(value, i + 4, close - 1)]
            ELSE VarMatchFrom(value, i + 1)

\* The loop of resolveCssVariable: m is the match of the turn, resolved the
\* text so far
RECURSIVE ResolveVars(_, _, _)
ResolveVars(value, resolved, m) ==
  IF ~m.found THEN resolved
  ELSE ResolveVars(
         value,
         IF /\ Trim(m.group) # <<>>
            /\ resolveThemeValue(Trim(m.group)).found
            /\ resolveThemeValue(Trim(m.group)).value # <<>>
            /\ ~Includes(resolveThemeValue(Trim(m.group)).value, <<"v","a","r","(">>)
           THEN ReplaceFirst(resolved, SubSeq(value, m.start, m.end),
                             resolveThemeValue(Trim(m.group)).value)
           ELSE resolved,
         VarMatchFrom(value, m.end + 1))

resolveCssVariable(value) == ResolveVars(value, value, VarMatchFrom(value, 1))

\* The name with the first prefix of the list that it starts with removed
RECURSIVE StripFirstPrefix(_, _)
StripFirstPrefix(name, prefixes) ==
  IF prefixes = <<>> THEN name
  ELSE IF StartsWith(name, Head(prefixes)) THEN From(name, Len(Head(prefixes)) + 1)
  ELSE StripFirstPrefix(name, Tail(prefixes))

varNameToTokenPath(varName) ==
  LET name == IF StartsWith(varName, <<"-","-">>) THEN From(varName, 3) ELSE varName
      prefixMappings ==
        <<<<"c","o","l","o","r","-">>, <<"t","e","x","t","-">>, <<"l","e","a","d","i","n","g","-">>, <<"t","r","a","c","k","i","n","g","-">>, <<"f","o","n","t","-","w","e","i","g","h","t","-">>, <<"f","o","n","t","-","s","i","z","e","-">>,
          <<"r","a","d","i","u","s","-">>, <<"s","h","a","d","o","w","-">>, <<"c","o","n","t","a","i","n","e","r","-">>, <<"s","p","a","c","i","n","g","-">>>>
  IN ReplaceAllChar(StripFirstPrefix(name, prefixMappings), "-", <<".">>)

(* ----- numbers: parseFloat and the text of a number ----- *)

DigitValue(c) ==
  CASE c = "0" -> 0 [] c = "1" -> 1 [] c = "2" -> 2 [] c = "3" -> 3 [] c = "4" -> 4
    [] c = "5" -> 5 [] c = "6" -> 6 [] c = "7" -> 7 [] c = "8" -> 8 [] c = "9" -> 9

DigitChar(d) == <<"0","1","2","3","4","5","6","7","8","9">>[d + 1]

RECURSIVE Pow10(_)
Pow10(n) == IF n = 0 THEN 1 ELSE 10 * Pow10(n - 1)

\* the number a run of digits denotes
RECURSIVE DigitsToNat(_)
DigitsToNat(ds) ==
  IF ds = <<>> THEN 0 ELSE 10 * DigitsToNat(SubSeq(ds, 1, Len(ds) - 1)) + DigitValue(ds[Len(ds)])

\* the decimal digits of a natural number
RECURSIVE NatToDigits(_)
NatToDigits(n) ==
  IF n < 10 THEN <<DigitChar(n)>> ELSE Append(NatToDigits(n \div 10), DigitChar(n % 10))

\* parseFloat(text) for an unsigned decimal prefix: [nan, num, scale], the
\* number being num / 10^scale
parseFloat(text) ==
  LET Number(intPart, frac) ==
        IF intPart = <<>> /\ frac = <<>>
          THEN [nan |-> TRUE, num |-> 0, scale |-> 0]
          ELSE [nan |-> FALSE, num |-> DigitsToNat(intPart \o frac), scale |-> Len(frac)]
      Parts(s, intEnd) ==
        Number(SubSeq(s, 1, intEnd - 1),
               IF intEnd <= Len(s) /\ s[intEnd] = "."
                 THEN SubSeq(s, intEnd + 1, SkipWhile(s, intEnd + 1, Digits) - 1)
                 ELSE <<>>)
  IN Parts(TrimStart(text), SkipWhile(TrimStart(text), 1, Digits))

\* the fraction digits of num / 10^scale, without the trailing zeros
RECURSIVE FractionDigits(_, _)
FractionDigits(num, scale) ==
  IF scale = 0 \/ num % Pow10(scale) = 0 THEN <<>>
  ELSE <<DigitChar((num \div Pow10(scale - 1)) % 10)>> \o FractionDigits(num % Pow10(scale - 1), scale - 1)

\* String(num / 10^scale) for a decimal that a double holds exactly
NumberToString(num, scale) ==
  NatToDigits(num \div Pow10(scale))
  \o (IF FractionDigits(num, scale) = <<>> THEN <<>>
      ELSE <<".">> \o FractionDigits(num, scale))

(* ----- parseCssProperties ----- *)

\* /calc\(var\(--spacing\)\s*\*\s*(\d+(?:\.\d+)?)\)/ matched at position i of
\* value: [found, group]
SpacingCalcMatchAt(value, i) ==
  LET None == [found |-> FALSE, group |-> <<>>]
      Group(numFrom, numEnd) ==
        IF numEnd <= Len(value) /\ value[numEnd] = ")"
          THEN [found |-> TRUE, group |-> SubSeq(value, numFrom, numEnd - 1)]
          ELSE None
      Number(numFrom, intEnd) ==
        IF intEnd = numFrom THEN None
        ELSE Group(numFrom,
                   IF /\ intEnd + 1 <= Len(value)
                      /\ value[intEnd] = "."
                      /\ value[intEnd + 1] \in Digits
                     THEN SkipWhile(value, intEnd + 1, Digits)
                     ELSE intEnd)
      Factor(numFrom) == Number(numFrom, SkipWhile(value, numFrom, Digits))
      Star(star) ==
        IF star <= Len(value) /\ value[star] = "*"
          THEN Factor(SkipWhile(value, star + 1, Whitespace))
          ELSE None
  IN IF OccursAt(value, <<"c","a","l","c","(","v","a","r","(","-","-","s","p","a","c","i","n","g",")">>, i)
       THEN Star(SkipWhile(value, i + Len(<<"c","a","l","c","(","v","a","r","(","-","-","s","p","a","c","i","n","g",")">>), Whitespace))
       ELSE None

\* originalValue.match(...): the first position from i on where the pattern
\* matches
RECURSIVE SpacingCalcMatchFrom(_, _)
SpacingCalcMatchFrom(value, i) ==
  IF i > Len(value) THEN [found |-> FALSE, group |-> <<>>]
  ELSE IF SpacingCalcMatchAt(value, i).found THEN SpacingCalcMatchAt(value, i)
  ELSE SpacingCalcMatchFrom(value, i + 1)

SpacingCalcMatch(value) == SpacingCalcMatchFrom(value, 1)

\* `${baseValue * multiplier}rem`, or the original value when the theme has
\* no --spacing or a number is NaN
SpacingValue(originalValue, baseSpacing, multiplier, baseValue) ==
  IF /\ baseSpacing.found
     /\ baseSpacing.value # <<>>
     /\ ~multiplier.nan
     /\ ~baseValue.nan
    THEN NumberToString(baseValue.num * multiplier.num,
                        baseValue.scale + multiplier.scale) \o <<"r","e","m">>
    ELSE originalValue

\* The ParsedCssProperty of a declaration whose name and value are trimmed,
\* calc being the match of the spacing pattern: [propName, tokenPath, rawValue]
ParsedCssProperty(propName, originalValue, calc) ==
  IF calc.found
    THEN [propName  |-> propName,
          tokenPath |-> calc.group,
          rawValue  |-> SpacingValue(originalValue, resolveThemeValue(<<"-","-","s","p","a","c","i","n","g">>),
                                     parseFloat(calc.group),
                                     parseFloat(resolveThemeValue(<<"-","-","s","p","a","c","i","n","g">>).value))]
  ELSE IF Includes(originalValue, <<"v","a","r","(","-","-">>)
    THEN [propName  |-> propName,
          tokenPath |-> IF VarMatchFrom(originalValue, 1).found
                          THEN varNameToTokenPath(VarMatchFrom(originalValue, 1).group)
                          ELSE originalValue,
          rawValue  |-> resolveCssVariable(originalValue)]
  ELSE [propName |-> propName, tokenPath |-> originalValue, rawValue |-> originalValue]

\* The body of parseCssProperties' loop for one declaration
ParseDeclaration(decl) ==
  ParsedCssProperty(Trim(decl.prop), Trim(decl.value), SpacingCalcMatch(Trim(decl.value)))

\* The declarations parseCssProperties keeps: not a custom property and not
\* an @property descriptor (and neither name nor value empty)
IsStyleDeclaration(decl) ==
  /\ Trim(decl.prop) # <<>>
  /\ Trim(decl.value) # <<>>
  /\ ~StartsWith(Trim(decl.prop), <<"-","-">>)
  /\ Trim(decl.prop) \notin {<<"s","y","n","t","a","x">>, <<"i","n","h","e","r","i","t","s">>, <<"i","n","i","t","i","a","l","-","v","a","l","u","e">>}

parseCssProperties(decls) == Map(Filter(decls, IsStyleDeclaration), ParseDeclaration)

(* ----- isResolvableValue, formatTokenValue ----- *)

\* PROP_TO_TOKEN_CATEGORY
PROP_TO_TOKEN_CATEGORY ==
  (<<"c","o","l","o","r">> :> <<"c","o","l","o","r","s">>) @@ (<<"b","a","c","k","g","r","o","u","n","d","C","o","l","o","r">> :> <<"c","o","l","o","r","s">>)
  @@ (<<"b","o","r","d","e","r","C","o","l","o","r">> :> <<"c","o","l","o","r","s">>) @@ (<<"b","o","r","d","e","r","T","o","p","C","o","l","o","r">> :> <<"c","o","l","o","r","s">>)
  @@ (<<"b","o","r","d","e","r","R","i","g","h","t","C","o","l","o","r">> :> <<"c","o","l","o","r","s">>) @@ (<<"b","o","r","d","e","r","B","o","t","t","o","m","C","o","l","o","r">> :> <<"c","o","l","o","r","s">>)
  @@ (<<"b","o","r","d","e","r","L","e","f","t","C","o","l","o","r">> :> <<"c","o","l","o","r","s">>) @@ (<<"o","u","t","l","i","n","e","C","o","l","o","r">> :> <<"c","o","l","o","r","s">>)
  @@ (<<"f","i","l","l">> :> <<"c","o","l","o","r","s">>) @@ (<<"s","t","r","o","k","e">> :> <<"c","o","l","o","r","s">>)
  @@ (<<"c","a","r","e","t","C","o","l","o","r">> :> <<"c","o","l","o","r","s">>) @@ (<<"a","c","c","e","n","t","C","o","l","o","r">> :> <<"c","o","l","o","r","s">>)
  @@ (<<"t","e","x","t","D","e","c","o","r","a","t","i","o","n","C","o","l","o","r">> :> <<"c","o","l","o","r","s">>)
  @@ (<<"f","o","n","t","S","i","z","e">> :> <<"f","o","n","t","S","i","z","e","s">>) @@ (<<"f","o","n","t","W","e","i","g","h","t">> :> <<"f","o","n","t","W","e","i","g","h","t","s">>)
  @@ (<<"f","o","n","t","F","a","m","i","l","y">> :> <<"f","o","n","t","s">>) @@ (<<"l","i","n","e","H","e","i","g","h","t">> :> <<"l","i","n","e","H","e","i","g","h","t","s">>)
  @@ (<<"l","e","t","t","e","r","S","p","a","c","i","n","g">> :> <<"l","e","t","t","e","r","S","p","a","c","i","n","g","s">>)
  @@ (<<"w","i","d","t","h">> :> <<"s","i","z","e","s">>) @@ (<<"h","e","i","g","h","t">> :> <<"s","i","z","e","s">>)
  @@ (<<"m","i","n","W","i","d","t","h">> :> <<"s","i","z","e","s">>) @@ (<<"m","i","n","H","e","i","g","h","t">> :> <<"s","i","z","e","s">>)
  @@ (<<"m","a","x","W","i","d","t","h">> :> <<"s","i","z","e","s">>) @@ (<<"m","a","x","H","e","i","g","h","t">> :> <<"s","i","z","e","s">>)
  @@ (<<"p","a","d","d","i","n","g">> :> <<"s","p","a","c","i","n","g">>) @@ (<<"p","a","d","d","i","n","g","T","o","p">> :> <<"s","p","a","c","i","n","g">>)
  @@ (<<"p","a","d","d","i","n","g","R","i","g","h","t">> :> <<"s","p","a","c","i","n","g">>) @@ (<<"p","a","d","d","i","n","g","B","o","t","t","o","m">> :> <<"s","p","a","c","i","n","g">>)
  @@ (<<"p","a","d","d","i","n","g","L","e","f","t">> :> <<"s","p","a","c","i","n","g">>) @@ (<<"p","a","d","d","i","n","g","I","n","l","i","n","e">> :> <<"s","p","a","c","i","n","g">>)
  @@ (<<"p","a","d","d","i","n","g","B","l","o","c","k">> :> <<"s","p","a","c","i","n","g">>)
  @@ (<<"m","a","r","g","i","n">> :> <<"s","p","a","c","i","n","g">>) @@ (<<"m","a","r","g","i","n","T","o","p">> :> <<"s","p","a","c","i","n","g">>)
  @@ (<<"m","a","r","g","i","n","R","i","g","h","t">> :> <<"s","p","a","c","i","n","g">>) @@ (<<"m","a","r","g","i","n","B","o","t","t","o","m">> :> <<"s","p","a","c","i","n","g">>)
  @@ (<<"m","a","r","g","i","n","L","e","f","t">> :> <<"s","p","a","c","i","n","g">>) @@ (<<"m","a","r","g","i","n","I","n","l","i","n","e">> :> <<"s","p","a","c","i","n","g">>)
  @@ (<<"m","a","r","g","i","n","B","l","o","c","k">> :> <<"s","p","a","c","i","n","g">>)
  @@ (<<"g","a","p">> :> <<"s","p","a","c","i","n","g">>) @@ (<<"r","o","w","G","a","p">> :> <<"s","p","a","c","i","n","g">>) @@ (<<"c","o","l","u","m","n","G","a","p">> :> <<"s","p","a","c","i","n","g">>)
  @@ (<<"t","o","p">> :> <<"s","p","a","c","i","n","g">>) @@ (<<"r","i","g","h","t">> :> <<"s","p","a","c","i","n","g">>) @@ (<<"b","o","t","t","o","m">> :> <<"s","p","a","c","i","n","g">>)
  @@ (<<"l","e","f","t">> :> <<"s","p","a","c","i","n","g">>) @@ (<<"i","n","s","e","t">> :> <<"s","p","a","c","i","n","g">>)
  @@ (<<"b","o","r","d","e","r","R","a","d","i","u","s">> :> <<"r","a","d","i","i">>) @@ (<<"b","o","r","d","e","r","T","o","p","L","e","f","t","R","a","d","i","u","s">> :> <<"r","a","d","i","i">>)
  @@ (<<"b","o","r","d","e","r","T","o","p","R","i","g","h","t","R","a","d","i","u","s">> :> <<"r","a","d","i","i">>) @@ (<<"b","o","r","d","e","r","B","o","t","t","o","m","L","e","f","t","R","a","d","i","u","s">> :> <<"r","a","d","i","i">>)
  @@ (<<"b","o","r","d","e","r","B","o","t","t","o","m","R","i","g","h","t","R","a","d","i","u","s">> :> <<"r","a","d","i","i">>)
  @@ (<<"b","o","r","d","e","r","W","i","d","t","h">> :> <<"b","o","r","d","e","r","W","i","d","t","h","s">>) @@ (<<"b","o","r","d","e","r","T","o","p","W","i","d","t","h">> :> <<"b","o","r","d","e","r","W","i","d","t","h","s">>)
  @@ (<<"b","o","r","d","e","r","R","i","g","h","t","W","i","d","t","h">> :> <<"b","o","r","d","e","r","W","i","d","t","h","s">>) @@ (<<"b","o","r","d","e","r","B","o","t","t","o","m","W","i","d","t","h">> :> <<"b","o","r","d","e","r","W","i","d","t","h","s">>)
  @@ (<<"b","o","r","d","e","r","L","e","f","t","W","i","d","t","h">> :> <<"b","o","r","d","e","r","W","i","d","t","h","s">>)
  @@ (<<"b","o","x","S","h","a","d","o","w">> :> <<"s","h","a","d","o","w","s">>) @@ (<<"o","p","a","c","i","t","y">> :> <<"o","p","a","c","i","t","y">>) @@ (<<"z","I","n","d","e","x">> :> <<"z","I","n","d","e","x">>)
  @@ (<<"t","r","a","n","s","i","t","i","o","n","D","u","r","a","t","i","o","n">> :> <<"d","u","r","a","t","i","o","n","s">>) @@ (<<"t","r","a","n","s","i","t","i","o","n","T","i","m","i","n","g","F","u","n","c","t","i","o","n">> :> <<"e","a","s","i","n","g","s">>)
  @@ (<<"a","n","i","m","a","t","i","o","n","D","u","r","a","t","i","o","n">> :> <<"d","u","r","a","t","i","o","n","s">>) @@ (<<"a","n","i","m","a","t","i","o","n","T","i","m","i","n","g","F","u","n","c","t","i","o","n">> :> <<"e","a","s","i","n","g","s">>)

isResolvableValue(value) ==
  LET \* /^#[0-9a-fA-F]{3,8}$/
      IsHexColor(v) ==
        /\ Len(v) \in 4..9
        /\ Head(v) = "#"
        /\ \A i \in 2..Len(v) :
             v[i] \in Digits \cup {"a","b","c","d","e","f","A","B","C","D","E","F"}
      \* /^(rgb|rgba|hsl|hsla|oklch|oklab|lab|lch)\(/
      IsColorFunction(v) ==
        \E f \in {<<"r","g","b","(">>, <<"r","g","b","a","(">>, <<"h","s","l","(">>, <<"h","s","l","a","(">>, <<"o","k","l","c","h","(">>, <<"o","k","l","a","b","(">>, <<"l","a","b","(">>, <<"l","c","h","(">>} :
          StartsWith(v, f)
      \* /^-?[\d.]+(%|px|rem|...|s|ms)?$/, the number being v[from..to-1]
      IsNumberWithUnit(v, from, to) ==
        /\ to > from
        /\ \/ to > Len(v)
           \/ From(v, to) \in
                {<<"%">>, <<"p","x">>, <<"r","e","m">>, <<"e","m">>, <<"v","h">>, <<"v","w">>, <<"v","m","i","n">>, <<"v","m","a","x">>, <<"c","h">>, <<"e","x">>, <<"c","m">>,
                 <<"m","m">>, <<"i","n">>, <<"p","t">>, <<"p","c">>, <<"d","e","g">>, <<"r","a","d">>, <<"t","u","r","n">>, <<"s">>, <<"m","s">>}
      \* the keyword alternatives, each anchored at both ends
      IsKeyword(v) ==
        v \in {<<"a","u","t","o">>, <<"n","o","n","e">>, <<"i","n","h","e","r","i","t">>, <<"i","n","i","t","i","a","l">>, <<"u","n","s","e","t">>, <<"r","e","v","e","r","t">>, <<"n","o","r","m","a","l">>, <<"b","o","l","d">>,
               <<"i","t","a","l","i","c">>, <<"b","l","o","c","k">>, <<"i","n","l","i","n","e">>, <<"f","l","e","x">>, <<"g","r","i","d">>, <<"h","i","d","d","e","n">>, <<"v","i","s","i","b","l","e">>,
               <<"a","b","s","o","l","u","t","e">>, <<"r","e","l","a","t","i","v","e">>, <<"f","i","x","e","d">>, <<"s","t","i","c","k","y">>, <<"s","t","a","t","i","c">>,
               <<"l","e","f","t">>, <<"r","i","g","h","t">>, <<"c","e","n","t","e","r">>, <<"t","o","p">>, <<"b","o","t","t","o","m">>, <<"b","a","s","e","l","i","n","e">>, <<"s","t","r","e","t","c","h">>,
               <<"s","t","a","r","t">>, <<"e","n","d">>, <<"s","p","a","c","e","-","b","e","t","w","e","e","n">>, <<"s","p","a","c","e","-","a","r","o","u","n","d">>, <<"s","p","a","c","e","-","e","v","e","n","l","y">>,
               <<"s","o","l","i","d">>, <<"d","a","s","h","e","d">>, <<"d","o","t","t","e","d">>, <<"d","o","u","b","l","e">>, <<"g","r","o","o","v","e">>, <<"r","i","d","g","e">>, <<"i","n","s","e","t">>,
               <<"o","u","t","s","e","t">>, <<"u","p","p","e","r","c","a","s","e">>, <<"l","o","w","e","r","c","a","s","e">>, <<"c","a","p","i","t","a","l","i","z","e">>,
               <<"w","r","a","p">>, <<"n","o","w","r","a","p">>, <<"w","r","a","p","-","r","e","v","e","r","s","e">>,
               <<"r","o","w">>, <<"c","o","l","u","m","n">>, <<"r","o","w","-","r","e","v","e","r","s","e">>, <<"c","o","l","u","m","n","-","r","e","v","e","r","s","e">>,
               <<"c","o","v","e","r">>, <<"c","o","n","t","a","i","n">>}
      Matches(v, from) ==
        \/ IsHexColor(v)
        \/ IsColorFunction(v)
        \/ IsNumberWithUnit(v, from, SkipWhile(v, from, Digits \cup {"."}))
        \/ IsKeyword(v)
        \/ StartsWith(v, <<"u","r","l","(">>)
        \/ StartsWith(v, <<"c","a","l","c","(">>)
  IN /\ ~Includes(value, <<"v","a","r","(","-","-">>)
     /\ Matches(Trim(value), IF StartsWith(Trim(value), <<"-">>) THEN 2 ELSE 1)

\* `token(${category}.${tokenName}, ${rawValue})`
TokenReference(category, tokenName, rawValue) ==
  <<"t","o","k","e","n","(">> \o category \o <<".">> \o tokenName \o <<","," ">> \o rawValue \o <<")">>

\* formatTokenValue without its two early returns: every property of the
\* category table is wrapped
formatTokenValueAlways(propName, tokenName, rawValue) ==
  IF propName \in DOMAIN PROP_TO_TOKEN_CATEGORY
    THEN TokenReference(PROP_TO_TOKEN_CATEGORY[propName], tokenName, rawValue)
    ELSE rawValue

formatTokenValue(propName, tokenName, rawValue) ==
  IF tokenName = rawValue THEN rawValue
  ELSE IF ~isResolvableValue(rawValue) THEN rawValue
  ELSE IF propName \in DOMAIN PROP_TO_TOKEN_CATEGORY
    THEN TokenReference(PROP_TO_TOKEN_CATEGORY[propName], tokenName, rawValue)
  ELSE rawValue

(* ----- getMatchingTwCandidates, twClassListToPandaStyles ----- *)

\* The body of getMatchingTwCandidates' loop for one parsed property:
\* the MatchingToken pushed, with tokenName empty when nothing is pushed
MatchingToken(ruleProp, classInfo) ==
  LET Token(propName, tokenName) ==
        [propName  |-> propName,
         tokenName |-> IF tokenName # <<>> /\ classInfo.isImportant
                         THEN tokenName \o <<"!">> ELSE tokenName,
         rawValue  |-> IF classInfo.isImportant
                         THEN ruleProp.rawValue \o <<" ","!","i","m","p","o","r","t","a","n","t">> ELSE ruleProp.rawValue,
         classInfo |-> classInfo]
  IN Token(kebabToCamel(ruleProp.propName),
           IF \/ IsCandidate(ruleProp.tokenPath)
              \/ kebabToCamel(ruleProp.propName) \notin PropertiesWithValues
             THEN ruleProp.tokenPath
             ELSE ReplaceFirst(classInfo.value, <<"-">>, <<".">>))

\* getMatchingTwCandidates after parseTwClassName returned classInfo, rule
\* being what candidatesToCss returns for the class
MatchingTokens(classInfo, rule) ==
  IF ~classInfo.parsed THEN <<>>
  ELSE IF classInfo.value = <<>> THEN <<>>
  ELSE IF ~rule.css THEN <<>>
  ELSE Filter(Map(parseCssProperties(rule.decls),
                  LAMBDA ruleProp : MatchingToken(ruleProp, classInfo)),
              LAMBDA m : m.tokenName # <<>>)

getMatchingTwCandidates(className) ==
  MatchingTokens(parseTwClassName(className), candidatesToCss(className))

\* A style object is [obj |-> a function from keys to style values] and a
\* style value is a style object or [leaf |-> text].
Leaf(v) == [leaf |-> v]

Obj(f) == [obj |-> f]

IsObj(x) == DOMAIN x = {"obj"}

EmptyObj == Obj(<<>>)

\* the condition key without the lookup of the "_" name
conditionValueBare(modifier) ==
  IF kebabToCamel(modifier) \in ConditionValues THEN kebabToCamel(modifier) ELSE modifier

\* The condition key of a modifier (the body of the reduce callback)
conditionValue(modifier) ==
  LET Key(camelModifier) ==
        IF <<"_">> \o camelModifier \in ConditionValues THEN <<"_">> \o camelModifier
        ELSE IF camelModifier \in ConditionValues THEN camelModifier
        ELSE modifier
  IN Key(kebabToCamel(modifier))

\* classInfo.modifiers.reduce((acc, modifier) => ({ [conditionValue]: acc }), acc)
RECURSIVE ReduceModifiers(_, _)
ReduceModifiers(modifiers, acc) ==
  IF modifiers = <<>> THEN acc
  ELSE ReduceModifiers(Tail(modifiers), Obj(conditionValue(Head(modifiers)) :> acc))

\* The entry twClassListToPandaStyles pushes for one MatchingToken
StyleEntry(match) ==
  [match  |-> match,
   styles |-> ReduceModifiers(
                match.classInfo.modifiers,
                Obj(match.propName :>
                      Leaf(formatTokenValue(match.propName, match.tokenName,
                                            match.rawValue))))]

EntriesOfClass(className) == Map(getMatchingTwCandidates(className), StyleEntry)

\* twClassListToPandaStyles going through the classes last to first
twClassListToPandaStylesReversed(classList) ==
  Flatten(Map([i \in 1..Len(classList) |-> classList[Len(classList) + 1 - i]],
              EntriesOfClass))

\* classList is the Set in its iteration order
twClassListToPandaStyles(classList) == Flatten(Map(classList, EntriesOfClass))

(* ----- mergeCss of @pandacss/shared, as the callers use it ----- *)

\* mergeProps(prev, obj): a deep merge in which the later value wins
RECURSIVE MergeProps(_, _)
MergeProps(prev, obj) ==
  Obj([k \in DOMAIN prev.obj \cup DOMAIN obj.obj |->
         IF k \notin DOMAIN obj.obj THEN prev.obj[k]
         ELSE IF k \notin DOMAIN prev.obj THEN obj.obj[k]
         ELSE IF IsObj(prev.obj[k]) /\ IsObj(obj.obj[k])
           THEN MergeProps(prev.obj[k], obj.obj[k])
         ELSE obj.obj[k]])

\* mergeCss(...styles)
RECURSIVE mergeCss(_)
mergeCss(styles) ==
  IF styles = <<>> THEN EmptyObj
  ELSE MergeProps(mergeCss(SubSeq(styles, 1, Len(styles) - 1)), styles[Len(styles)])

(***************************************************************************)
(* rewrite-html-to-panda.ts                                                *)
(***************************************************************************)

\* the marker pattern without its optional name, /^(group|peer)$/
isTailwindMarkerClassBare(cls) == cls \in {<<"g","r","o","u","p">>, <<"p","e","e","r">>}

\* /^(group|peer)(\/[\w-]+)?$/
isTailwindMarkerClass(cls) ==
  \E head \in {<<"g","r","o","u","p">>, <<"p","e","e","r">>} :
    /\ StartsWith(cls, head)
    /\ LET rest == From(cls, Len(head) + 1)
       IN \/ rest = <<>>
          \/ /\ Len(rest) >= 2
             /\ Head(rest) = "/"
             /\ \A i \in 2..Len(rest) : rest[i] \in WordChars \cup {"-"}

\* classString.split(/\s+/).map((c) => c.trim()).filter(Boolean)
RECURSIVE SplitClasses(_)
SplitClasses(text) ==
  LET Words(s, end) == <<SubSeq(s, 1, end - 1)>> \o SplitClasses(From(s, end))
  IN IF TrimStart(text) = <<>> THEN <<>>
     ELSE Words(TrimStart(text),
                SkipWhile(TrimStart(text), 1, Range(text) \ Whitespace))

\* convertClassesToPandaString from its classList on, with options.shorthands
\* unset.  pandaString is kept as the style object it prints (finalStyles),
\* hasPandaString telling whether the text is non-empty; styles is the local
\* list twClassListToPandaStyles returned.
ConvertClassList(classList) ==
  LET IsCustom(cls) == ~isTailwindMarkerClass(cls) /\ ~candidatesToCss(cls).css
      IsTailwind(cls) == ~isTailwindMarkerClass(cls) /\ candidatesToCss(cls).css
      Converted(markerClasses, customClasses, twClasses, styles) ==
        IF twClasses = <<>> \/ styles = <<>>
          THEN [hasPandaString |-> FALSE, finalStyles |-> EmptyObj, styles |-> <<>>,
                unconverted |-> customClasses,
                classesToKeep |-> markerClasses \o customClasses]
          ELSE [hasPandaString |-> TRUE,
                finalStyles    |-> mergeCss([i \in DOMAIN styles |-> styles[i].styles]),
                styles         |-> styles,
                unconverted    |-> customClasses,
                classesToKeep  |-> markerClasses \o customClasses]
  IN Converted(Filter(classList, isTailwindMarkerClass),
               Filter(classList, IsCustom),
               Filter(classList, IsTailwind),
               twClassListToPandaStyles(Filter(classList, IsTailwind)))

\* convertClassesToPandaString(classString, tailwind, panda, mergeCss)
convertClassesToPandaString(text) == ConvertClassList(Dedupe(SplitClasses(text)))

\* The replacement rewriteHtmlToPanda makes for one class attribute:
\*   "css"   className={css(...)}            "cx"   className={cx(css(...), kept)}
\*   "keep"  className="kept classes"        "none" the attribute is left as it was
Replacement(c) ==
  IF c.hasPandaString
    THEN [kind |-> IF c.classesToKeep # <<>> THEN "cx" ELSE "css",
          styles |-> c.finalStyles, kept |-> c.classesToKeep]
  ELSE IF c.classesToKeep # <<>>
    THEN [kind |-> "keep", styles |-> EmptyObj, kept |-> c.classesToKeep]
  ELSE [kind |-> "none", styles |-> EmptyObj, kept |-> <<>>]

\* rewriteHtmlToPanda(html, ...), the html given as the values of its class
\* attributes in document order: the replacement of each attribute, the
\* unique unconverted classes and usesCx
rewriteHtmlToPanda(classMatches) ==
  LET Rewritten(results) ==
        [classMatches       |-> classMatches,
         replacements       |-> [i \in DOMAIN results |-> Replacement(results[i])],
         unconvertedClasses |-> Dedupe(Flatten([i \in DOMAIN results |->
                                                  results[i].unconverted])),
         usesCx             |-> \E i \in DOMAIN results :
                                  Replacement(results[i]).kind = "cx"]
  IN Rewritten(Map(classMatches, convertClassesToPandaString))

(***************************************************************************)
(* Inputs                                                                  *)
(***************************************************************************)

\* the longest class list given to convertClassesToPandaString
MaxClasses == 2

\* the sequences over S of length 0..n
SeqsUpTo(S, n) == UNION {[1..k -> S] : k \in 0..n}

\* names.join(separator)
RECURSIVE Join(_, _)
Join(names, separator) ==
  IF names = <<>> THEN <<>>
  ELSE IF Len(names) = 1 THEN names[1]
  ELSE names[1] \o separator \o Join(Tail(names), separator)


(***************************************************************************)
(* tw-context.ts: the cached design system                                 *)
(***************************************************************************)

\* `@import "tailwindcss";`
DEFAULT_TAILWIND_CSS == <<"@","i","m","p","o","r","t"," ","\"","t","a","i","l","w","i","n","d","c","s","s","\"",";">>

\* The arguments createTailwindContext is called with:
\*   none; a JS config object; the text of a v3 config, module.exports = {};
\*   the default CSS; a CSS with a theme, @theme { --color-brand: red; };
\*   a CSS whose import cannot be loaded, @import "./missing.css";
ConfigArguments ==
  {[type |-> "undefined", text |-> <<>>],
   [type |-> "object", text |-> <<>>],
   [type |-> "string", text |-> <<"m","o","d","u","l","e",".","e","x","p","o","r","t","s"," ","="," ","{","}",";">>],
   [type |-> "string", text |-> DEFAULT_TAILWIND_CSS],
   [type |-> "string", text |-> <<"@","t","h","e","m","e"," ","{"," ","-","-","c","o","l","o","r","-","b","r","a","n","d",":"," ","r","e","d",";"," ","}">>],
   [type |-> "string", text |-> <<"@","i","m","p","o","r","t"," ","\"",".","/","m","i","s","s","i","n","g",".","c","s","s","\"",";">>]}

\* The CSS for which __unstable__loadDesignSystem throws (loadStylesheet
\* cannot read the imported file)
MalformedCss == {<<"@","i","m","p","o","r","t"," ","\"",".","/","m","i","s","s","i","n","g",".","c","s","s","\"",";">>}

\* createTailwindContext, the computation of css from cssOrConfig
ConfigCss(cssOrConfig) ==
  IF cssOrConfig.type = "string"
    THEN IF \/ Includes(cssOrConfig.text, <<"@","i","m","p","o","r","t">>)
            \/ Includes(cssOrConfig.text, <<"@","t","a","i","l","w","i","n","d">>)
            \/ Includes(cssOrConfig.text, <<"@","t","h","e","m","e">>)
           THEN cssOrConfig.text
           ELSE DEFAULT_TAILWIND_CSS
    ELSE DEFAULT_TAILWIND_CSS

\* the number of callers of createTailwindContext
MaxCallers == 2

\* the number of calls and resets of one run
MaxCalls == 3

Callers == 1..MaxCallers

\* null, for cachedDesignSystem and cachedCss
Null == [null |-> TRUE]

\* a design system: the number of its construction and the CSS it was built from
DesignSystem(id, css) == [id |-> id, css |-> css]

IdleCall == [pc |-> "idle", css |-> <<>>, designSystem |-> Null]

\* the cache test without the comparison of the key
CacheHitAnyKey(css) == cachedDesignSystem # Null

\* `if (cachedDesignSystem && cachedCss === css)`
CacheHit(css) == cachedDesignSystem # Null /\ cachedCss = [css |-> css]

\* createTailwindContext up to its await: a cache hit returns, otherwise the
\* construction of a design system starts
CallCreate(p, cssOrConfig) ==
  LET css == ConfigCss(cssOrConfig)
  IN /\ calls[p].pc = "idle"
     /\ Len(history) < MaxCalls
     /\ IF CacheHit(css)
          THEN /\ history' = Append(history, [op |-> "create", css |-> css,
                                              constructed |-> FALSE, threw |-> FALSE,
                                              context |-> cachedDesignSystem])
               /\ UNCHANGED <<calls, built>>
          ELSE /\ built' = built + 1
               /\ calls' = [calls EXCEPT ![p] =
                              [pc |-> "loading", css |-> css,
                               designSystem |-> DesignSystem(built + 1, css)]]
               /\ UNCHANGED history
     /\ UNCHANGED <<cachedDesignSystem, cachedCss>>
     /\ UNCHANGED <<stylesVars, htmlResult, batchVars, analysis, inference, fileVars>>

\* createTailwindContext after its await: the cache is assigned and returned
LoadResolves(p) ==
  /\ calls[p].pc = "loading"
  /\ calls[p].css \notin MalformedCss
  /\ cachedDesignSystem' = calls[p].designSystem
  /\ cachedCss' = [css |-> calls[p].css]
  /\ history' = Append(history, [op |-> "create", css |-> calls[p].css,
                                  constructed |-> TRUE, threw |-> FALSE,
                                  context |-> calls[p].designSystem])
  /\ calls' = [calls EXCEPT ![p] = IdleCall]
  /\ UNCHANGED built
  /\ UNCHANGED <<stylesVars, htmlResult, batchVars, analysis, inference, fileVars>>

\* __unstable__loadDesignSystem rejects: the call throws, the cache is as it was
LoadRejects(p) ==
  /\ calls[p].pc = "loading"
  /\ calls[p].css \in MalformedCss
  /\ history' = Append(history, [op |-> "create", css |-> calls[p].css,
                                  constructed |-> TRUE, threw |-> TRUE,
                                  context |-> Null])
  /\ calls' = [calls EXCEPT ![p] = IdleCall]
  /\ UNCHANGED <<cachedDesignSystem, cachedCss, built>>
  /\ UNCHANGED <<stylesVars, htmlResult, batchVars, analysis, inference, fileVars>>

clearTailwindContextCache ==
  /\ Len(history) < MaxCalls
  /\ cachedDesignSystem' = Null
  /\ cachedCss' = Null
  /\ history' = Append(history, [op |-> "clear", css |-> <<>>, constructed |-> FALSE,
                                  threw |-> FALSE, context |-> Null])
  /\ UNCHANGED <<calls, built>>
  /\ UNCHANGED <<stylesVars, htmlResult, batchVars, analysis, inference, fileVars>>

\* no call is between its start and its return
NoCallPending == \A p \in Callers : calls[p].pc = "idle"

(***************************************************************************)
(* batch-processor.ts                                                      *)
(***************************************************************************)

\* the longest list of matched files
MaxFiles == 3

\* the largest value of the concurrency option
MaxConcurrency == 2

\* the least value of the concurrency option: its type is number
MinConcurrency == 0 - 1

DEFAULT_HTML_EXTENSIONS == {".html", ".htm"}

DEFAULT_TS_EXTENSIONS == {".ts", ".tsx", ".js", ".jsx"}

\* The files of the working directory, by what processFile meets in them:
\*   read     readFileSync succeeds
\*   convert  "changed": the converter returns another text; "same": the same
\*            text; "throws": the converter throws
\*   write    writeFile succeeds
BatchFiles ==
  {[path |-> "page",   ext |-> ".html", read |-> TRUE,  convert |-> "changed", write |-> TRUE],
   [path |-> "locked", ext |-> ".html", read |-> FALSE, convert |-> "changed", write |-> TRUE],
   [path |-> "notes",  ext |-> ".md",   read |-> TRUE,  convert |-> "changed", write |-> TRUE],
   [path |-> "plain",  ext |-> ".tsx",  read |-> TRUE,  convert |-> "same",    write |-> TRUE],
   [path |-> "broken", ext |-> ".tsx",  read |-> TRUE,  convert |-> "throws",  write |-> TRUE],
   [path |-> "card",   ext |-> ".tsx",  read |-> TRUE,  convert |-> "changed", write |-> FALSE]}

\* chunkArray that keeps the full chunks only
RECURSIVE chunkArrayFullOnly(_, _)
chunkArrayFullOnly(array, size) ==
  IF Len(array) < size THEN <<>>
  ELSE <<SubSeq(array, 1, size)>> \o chunkArrayFullOnly(From(array, size + 1), size)

\* chunkArray that puts the whole array into one chunk
chunkArrayWhole(array, size) == IF array = <<>> THEN <<>> ELSE <<array>>

\* chunkArray(array, size) for size >= 1
RECURSIVE chunkArray(_, _)
chunkArray(array, size) ==
  IF array = <<>> THEN <<>>
  ELSE IF Len(array) <= size THEN <<array>>
  ELSE <<SubSeq(array, 1, size)>> \o chunkArray(From(array, size + 1), size)

\* processFile: outputPath (outDir is not set)
OutputPath(file) ==
  [path |-> file.path,
   ext  |-> IF file.ext \in DEFAULT_HTML_EXTENSIONS THEN ".tsx" ELSE file.ext]

\* A BatchFileResult; converted tells whether it carries the original and the
\* converted content, which the results "success" and "unchanged" do
FileResult(file, status, error) ==
  [inputPath |-> [path |-> file.path, ext |-> file.ext],
   outputPath |-> OutputPath(file), status |-> status, error |-> error,
   converted |-> status \in {"success", "unchanged"}]

\* processFile that writes whether or not dryRun is set
ProcessFileSyncAlwaysWrites(file, dryRun) ==
  IF ~file.read
    THEN [settled |-> TRUE, result |-> FileResult(file, "error", "ENOENT")]
  ELSE IF file.ext \notin DEFAULT_HTML_EXTENSIONS \cup DEFAULT_TS_EXTENSIONS
    THEN [settled |-> TRUE, result |-> FileResult(file, "skipped", "")]
  ELSE IF file.convert = "throws"
    THEN [settled |-> TRUE, result |-> FileResult(file, "error", "convert")]
  ELSE IF file.convert = "same"
    THEN [settled |-> TRUE, result |-> FileResult(file, "unchanged", "")]
  ELSE [settled |-> FALSE, result |-> FileResult(file, "success", "")]

\* processFile up to its first await (or to its return when it has none):
\*   [settled, result]; not settled means it awaits mkdir
ProcessFileSync(file, dryRun) ==
  IF ~file.read
    THEN [settled |-> TRUE, result |-> FileResult(file, "error", "ENOENT")]
  ELSE IF file.ext \notin DEFAULT_HTML_EXTENSIONS \cup DEFAULT_TS_EXTENSIONS
    THEN [settled |-> TRUE, result |-> FileResult(file, "skipped", "")]
  ELSE IF file.convert = "throws"
    THEN [settled |-> TRUE, result |-> FileResult(file, "error", "convert")]
  ELSE IF file.convert = "same"
    THEN [settled |-> TRUE, result |-> FileResult(file, "unchanged", "")]
  ELSE IF dryRun
    THEN [settled |-> TRUE, result |-> FileResult(file, "success", "")]
  ELSE [settled |-> FALSE, result |-> FileResult(file, "success", "")]

\* the summary batchProcess computes from results
Summary(results) ==
  LET Count(status) == Len(Filter(results, LAMBDA r : r.status = status))
  IN [total     |-> Len(results),
      success   |-> Count("success"),
      errors    |-> Count("error"),
      skipped   |-> Count("skipped"),
      unchanged |-> Count("unchanged")]

ProgressEvent(file, index, total, status, error) ==
  [current |-> file.path, index |-> index, total |-> total, status |-> status,
   error |-> error]

IdleBatch ==
  [pc |-> "idle", files |-> <<>>, concurrency |-> 1, dryRun |-> FALSE, chunks |-> <<>>,
   chunk |-> <<>>, processedCount |-> 0, results |-> <<>>, progress |-> <<>>,
   microtasks |-> <<>>, summary |-> Summary(<<>>)]

\* batchProcess from its call to the loop over the chunks
BatchStart ==
  /\ batch.pc = "called"
  /\ IF batch.files = <<>>
       THEN batch' = [batch EXCEPT !.pc = "returned"]
       ELSE IF batch.concurrency < 1
         \* chunkArray: i += size never reaches array.length
         THEN batch' = [batch EXCEPT !.pc = "chunkArray"]
         ELSE batch' = [batch EXCEPT !.pc = "loop",
                                     !.chunks = chunkArray(batch.files, batch.concurrency)]
  /\ UNCHANGED <<tasks, disk>>
  /\ UNCHANGED <<stylesVars, htmlResult, cacheVars, analysis, inference, fileVars>>

\* One turn of `for (const chunk of chunks)`: chunk.map calls every callback, and each
\* runs to its first await: processedCount++, the "processing" event, processFile
\* up to its first await
LaunchChunk ==
  /\ batch.pc = "loop"
  /\ batch.chunks # <<>>
  /\ LET chunk == Head(batch.chunks)
         n     == Len(chunk)
         total == Len(batch.files)
         Sync(k) == ProcessFileSync(chunk[k], batch.dryRun)
     IN /\ tasks' = [k \in 1..n |->
                       [file |-> chunk[k], result |-> Sync(k).result,
                        pc |-> IF Sync(k).settled THEN "settled" ELSE "mkdir"]]
        /\ batch' = [batch EXCEPT
                       !.pc = "awaiting",
                       !.chunk = chunk,
                       !.chunks = Tail(batch.chunks),
                       !.processedCount = batch.processedCount + n,
                       !.progress = batch.progress \o
                          [k \in 1..n |-> ProgressEvent(chunk[k], batch.processedCount + k,
                                                        total, "processing", "")],
                       !.microtasks = Filter([k \in 1..n |-> k],
                          LAMBDA k : Sync(k).settled)]
  /\ UNCHANGED disk
  /\ UNCHANGED <<stylesVars, htmlResult, cacheVars, analysis, inference, fileVars>>

\* mkdir resolves and processFile goes on to writeFile
MkdirDone(k) ==
  /\ batch.pc = "awaiting"
  /\ batch.microtasks = <<>>
  /\ k \in DOMAIN tasks
  /\ tasks[k].pc = "mkdir"
  /\ tasks' = [tasks EXCEPT ![k].pc = "writeFile"]
  /\ disk' = [disk EXCEPT !.dirs = disk.dirs \cup {"cwd"}]
  /\ UNCHANGED batch
  /\ UNCHANGED <<stylesVars, htmlResult, cacheVars, analysis, inference, fileVars>>

\* writeFile resolves or rejects, and processFile returns its result
WriteFileDone(k) ==
  /\ batch.pc = "awaiting"
  /\ batch.microtasks = <<>>
  /\ k \in DOMAIN tasks
  /\ tasks[k].pc = "writeFile"
  /\ IF tasks[k].file.write
       THEN /\ tasks' = [tasks EXCEPT ![k].pc = "settled"]
            /\ disk' = [disk EXCEPT !.files = disk.files \cup {OutputPath(tasks[k].file)}]
       ELSE /\ tasks' = [tasks EXCEPT ![k].pc = "settled",
                                      ![k].result = FileResult(tasks[k].file, "error", "EACCES")]
            /\ UNCHANGED disk
  /\ batch' = [batch EXCEPT !.microtasks = Append(batch.microtasks, k)]
  /\ UNCHANGED <<stylesVars, htmlResult, cacheVars, analysis, inference, fileVars>>

\* The callback of a file goes on after `await processFile(...)`: the second progress
\* event, and the callback returns the result
ResumeCallback ==
  /\ batch.pc = "awaiting"
  /\ batch.microtasks # <<>>
  /\ LET k == Head(batch.microtasks)
         r == tasks[k].result
     IN /\ tasks' = [tasks EXCEPT ![k].pc = "returned"]
        /\ batch' = [batch EXCEPT
                       !.microtasks = Tail(batch.microtasks),
                       !.progress = Append(batch.progress,
                          ProgressEvent(tasks[k].file, batch.processedCount, Len(batch.files),
                                        IF r.status = "error" THEN "error" ELSE "success",
                                        r.error))]
  /\ UNCHANGED disk
  /\ UNCHANGED <<stylesVars, htmlResult, cacheVars, analysis, inference, fileVars>>

\* Promise.all resolves: results.push(...chunkResults), and the loop goes on or ends
\* with the summary
JoinChunk ==
  /\ batch.pc = "awaiting"
  /\ \A k \in DOMAIN tasks : tasks[k].pc = "returned"
  /\ LET results == batch.results \o [k \in DOMAIN tasks |-> tasks[k].result]
     IN batch' = [batch EXCEPT
                    !.results = results,
                    !.chunk = <<>>,
                    !.pc = IF batch.chunks = <<>> THEN "returned" ELSE "loop",
                    !.summary = IF batch.chunks = <<>> THEN Summary(results) ELSE batch.summary]
  /\ tasks' = <<>>
  /\ UNCHANGED disk
  /\ UNCHANGED <<stylesVars, htmlResult, cacheVars, analysis, inference, fileVars>>

(***************************************************************************)
(* analyze-project.ts                                                      *)
(***************************************************************************)

\* the longest list of files analyzeProject scans
MaxAnalyzed == 3

\* The files getFilesToAnalyze finds.  A file is the list of the texts its
\* class-bearing syntax holds (what the four patterns of
\* extractClassesFromFile capture), in the order the matches are pushed;
\* fails names the step that throws for the file:
\*   "read" readFileSync, "extract" tailwind.candidatesToCss, "none" nothing
AnalyzedFiles ==
  {[path |-> "a.tsx", fails |-> "none", captures |-> <<<<"f","l","e","x"," ","b","g","-","b","l","u","e","-","5","0","0">>>>],
   [path |-> "b.tsx", fails |-> "none", captures |-> <<<<"b","g","-","b","l","u","e","-","5","0","0"," ","f","l","e","x">>>>],
   [path |-> "c.tsx", fails |-> "none", captures |-> <<<<"g","r","o","u","p"," ","b","t","n">>, <<"f","l","e","x"," "," ","p","-","4">>>>],
   [path |-> "d.tsx", fails |-> "read", captures |-> <<<<"f","l","e","x"," ","b","g","-","b","l","u","e","-","5","0","0">>>>],
   [path |-> "e.tsx", fails |-> "extract", captures |-> <<<<"b","g","-","r","e","d","-","5","0","0"," ","t","e","x","t","-","w","h","i","t","e">>>>],
   [path |-> "f.html", fails |-> "none", captures |-> <<>>],
   [path |-> "g.tsx", fails |-> "none", captures |-> <<<<"t","e","x","t","-","w","h","i","t","e"," ","b","g","-","r","e","d","-","5","0","0">>, <<"f","l","e","x">>>>]}

\* the values of options.minPatternCount
MinPatternCounts == {1, 2}

\* extractClassesFromFile for a file that can be read
extractClassesFromFile(file) ==
  LET Skipped(cls) == StartsWith(cls, <<"{">>) \/ StartsWith(cls, <<"$">>)
      Categorised(allClasses) ==
        [classes     |-> allClasses,
         converted   |-> Filter(allClasses, LAMBDA cls :
                           ~Skipped(cls) /\ candidatesToCss(cls).css),
         unconverted |-> Filter(allClasses, LAMBDA cls :
                           ~Skipped(cls) /\ ~candidatesToCss(cls).css)]
  IN Categorised(Dedupe(Flatten(Map(file.captures, SplitClasses))))

\* a < b in the order Array.prototype.sort gives strings (by code unit);
\* the class names compared consist of lower-case letters, digits, "-", ":", "!"
CharRank(c) ==
  CASE c = "!" -> 33 [] c = "-" -> 45 [] c = ":" -> 58
    [] c \in Digits -> 48 + DigitValue(c)
    [] OTHER -> 97 + (CHOOSE k \in 0..25 :
                        <<"a","b","c","d","e","f","g","h","i","j","k","l","m","n","o","p",
                          "q","r","s","t","u","v","w","x","y","z">>[k + 1] = c)

RECURSIVE StringLess(_, _)
StringLess(a, b) ==
  IF b = <<>> THEN FALSE
  ELSE IF a = <<>> THEN TRUE
  ELSE IF Head(a) = Head(b) THEN StringLess(Tail(a), Tail(b))
  ELSE CharRank(Head(a)) < CharRank(Head(b))

\* [...classes].sort() of a list without duplicates
RECURSIVE SortStrings(_)
SortStrings(classes) ==
  IF classes = <<>> THEN <<>>
  ELSE LET least == CHOOSE x \in Range(classes) :
                      \A y \in Range(classes) : y = x \/ StringLess(x, y)
       IN <<least>> \o SortStrings(Filter(classes, LAMBDA y : y # least))

\* the id without the sort: classes.join("|")
generatePatternIdUnsorted(classes) == Join(classes, <<"|">>)

\* [...classes].sort().join("|")
generatePatternId(classes) == Join(SortStrings(classes), <<"|">>)

\* analyzeProject, "Track class patterns"
TrackPattern(patterns, convertedClasses, finalStyles, relativePath) ==
  LET Known(patternId) == \E i \in DOMAIN patterns : patterns[i].id = patternId
      Seen(at) ==
        [patterns EXCEPT
           ![at].count = patterns[at].count + 1,
           ![at].files = IF relativePath \in Range(patterns[at].files)
                           THEN patterns[at].files
                           ELSE Append(patterns[at].files, relativePath)]
      Track(patternId) ==
        IF Known(patternId)
          THEN Seen(CHOOSE i \in DOMAIN patterns : patterns[i].id = patternId)
          ELSE Append(patterns, [id |-> patternId, classes |-> convertedClasses,
                                 styles |-> finalStyles, count |-> 1,
                                 files |-> <<relativePath>>])
  IN Track(generatePatternId(convertedClasses))

\* patterns.sort((a, b) => b.count - a.count): by count, largest first, the
\* order of equal counts kept
RECURSIVE SortByCount(_)
SortByCount(patterns) ==
  IF patterns = <<>> THEN <<>>
  ELSE LET most == CHOOSE i \in DOMAIN patterns :
                     /\ \A j \in DOMAIN patterns : patterns[j].count <= patterns[i].count
                     /\ \A j \in 1..(i - 1) : patterns[j].count < patterns[i].count
       IN <<patterns[most]>> \o
          SortByCount([k \in 1..(Len(patterns) - 1) |->
                         IF k < most THEN patterns[k] ELSE patterns[k + 1]])

(* ----- extractTokensFromStyles ----- *)

\* walkObject: the strings of a style object in the order of Object.values.
\* parts are the style objects mergeCss was given, in order, each of one
\* leaf: a key of the merged object is as old as the first part that has it
RECURSIVE walkObject(_, _)
walkObject(obj, parts) ==
  IF ~IsObj(obj) THEN <<obj.leaf>>
  ELSE IF parts = <<>> THEN <<>>
  ELSE IF ~IsObj(Head(parts)) \/ DOMAIN Head(parts).obj \cap DOMAIN obj.obj = {}
    THEN walkObject(obj, Tail(parts))
  ELSE LET key == CHOOSE k \in DOMAIN Head(parts).obj \cap DOMAIN obj.obj : TRUE
       IN walkObject(obj.obj[key],
                     Map(Filter(parts, LAMBDA p : IsObj(p) /\ key \in DOMAIN p.obj),
                         LAMBDA p : p.obj[key]))
          \o walkObject(Obj([k \in DOMAIN obj.obj \ {key} |-> obj.obj[k]]), parts)

\* the index after the longest run of characters not in stops that starts
\* at i
RECURSIVE SkipUntil(_, _, _)
SkipUntil(s, i, stops) ==
  IF i <= Len(s) /\ s[i] \notin stops THEN SkipUntil(s, i + 1, stops) ELSE i

\* /token\(([^,)]+)(?:,\s*([^)]+))?\)/ matched at the start of text:
\* [found, tokenPath, fallback, end], tokenPath and fallback trimmed, the
\* fallback empty when the second group did not take part
tokenPattern(text) ==
  LET None == [found |-> FALSE, tokenPath |-> <<>>, fallback |-> <<>>, end |-> 0]
      Second(from, pathEnd, end) ==
        IF end = pathEnd + 1 \/ end > Len(text) THEN None
        ELSE [found |-> TRUE, tokenPath |-> Trim(SubSeq(text, from, pathEnd - 1)),
              fallback |-> Trim(SubSeq(text, pathEnd + 1, end - 1)), end |-> end]
      First(from, pathEnd) ==
        IF pathEnd = from \/ pathEnd > Len(text) THEN None
        ELSE IF text[pathEnd] = ")"
          THEN [found |-> TRUE, tokenPath |-> Trim(SubSeq(text, from, pathEnd - 1)),
                fallback |-> <<>>, end |-> pathEnd]
        ELSE Second(from, pathEnd, SkipUntil(text, pathEnd + 1, {")"}))
  IN IF StartsWith(text, <<"t","o","k","e","n","(">>)
       THEN First(Len(<<"t","o","k","e","n","(">>) + 1, SkipUntil(text, Len(<<"t","o","k","e","n","(">>) + 1, {",", ")"}))
       ELSE None

\* `while ((match = tokenPattern.exec(obj)) !== null)`: the matches in a
\* string, in order
RECURSIVE TokenMatches(_)
TokenMatches(text) ==
  LET Matched(match) ==
        IF match.found THEN <<match>> \o TokenMatches(From(text, match.end + 1))
                       ELSE TokenMatches(Tail(text))
  IN IF text = <<>> THEN <<>> ELSE Matched(tokenPattern(text))

\* The body of the loop for one match: the entry of the token is counted,
\* or made
RecordToken(tokens, match, filePath) ==
  LET Usage(category, path) ==
        IF \E i \in DOMAIN tokens : tokens[i].category = category /\ tokens[i].path = path
          THEN [i \in DOMAIN tokens |->
                  IF tokens[i].category = category /\ tokens[i].path = path
                    THEN [tokens[i] EXCEPT
                            !.count = @ + 1,
                            !.files = IF filePath \in Range(@) THEN @
                                                               ELSE Append(@, filePath)]
                    ELSE tokens[i]]
          ELSE Append(tokens, [category |-> category, path |-> path,
                               value |-> match.fallback, count |-> 1,
                               files |-> <<filePath>>])
      Split(tokenPath, dot) ==
        IF dot = 0 THEN Usage(tokenPath, <<>>)
        ELSE Usage(IF dot = 1 THEN <<"u","n","k","n","o","w","n">> ELSE SubSeq(tokenPath, 1, dot - 1),
                   From(tokenPath, dot + 1))
  IN IF match.tokenPath = <<>> THEN tokens
     ELSE Split(match.tokenPath, IndexOf(match.tokenPath, <<".">>))

\* the loops of extractTokensFromStyles over the matches of all strings
RECURSIVE RecordTokens(_, _, _)
RecordTokens(tokens, matches, filePath) ==
  IF matches = <<>> THEN tokens
  ELSE RecordTokens(RecordToken(tokens, Head(matches), filePath), Tail(matches), filePath)

\* extractTokensFromStyles(styles, filePath, tokens); parts as for walkObject
extractTokensFromStyles(styles, parts, filePath, tokens) ==
  RecordTokens(tokens, Flatten(Map(walkObject(styles, parts), TokenMatches)), filePath)


IdleAnalysis ==
  [pc |-> "idle", filePaths |-> <<>>, minPatternCount |-> 2, next |-> 1,
   fileAnalyses |-> <<>>, classPatterns |-> <<>>, warnings |-> <<>>,
   allTokens |-> <<>>,
   files |-> <<>>, tokens |-> <<>>, patterns |-> <<>>, totalFiles |-> 0,
   unconvertedClasses |-> 0]

\* analyzeProject up to its loop: the files to analyze and the empty maps
AnalyzeStart ==
  /\ analysis.pc = "called"
  /\ analysis' = [analysis EXCEPT !.pc = "loop", !.next = 1]
  /\ UNCHANGED <<stylesVars, htmlResult, cacheVars, batchVars, inference, fileVars>>

\* The try block of the loop for a file: extracted is what
\* extractClassesFromFile returned, styles what twClassListToPandaStyles
\* returned for the converted classes
AnalyzedFile(file, extracted, styles) ==
  [analysis EXCEPT
     !.next = analysis.next + 1,
     !.allTokens =
        IF extracted.converted # <<>> /\ styles # <<>>
          THEN extractTokensFromStyles(
                 mergeCss([i \in DOMAIN styles |-> styles[i].styles]),
                 [i \in DOMAIN styles |-> styles[i].styles],
                 file.path, analysis.allTokens)
          ELSE analysis.allTokens,
     !.classPatterns =
        IF extracted.converted # <<>> /\ styles # <<>>
          THEN TrackPattern(analysis.classPatterns, extracted.converted,
                            mergeCss([i \in DOMAIN styles |-> styles[i].styles]),
                            file.path)
          ELSE analysis.classPatterns,
     !.fileAnalyses = Append(analysis.fileAnalyses,
        [filePath           |-> file.path,
         classes            |-> extracted.classes,
         convertedClasses   |-> extracted.converted,
         unconvertedClasses |-> extracted.unconverted])]

\* a catch block reached after the tokens of the file were counted
FailedFileCounted(file) ==
  [analysis EXCEPT
     !.next = analysis.next + 1,
     !.warnings = Append(analysis.warnings, file.path),
     !.allTokens = AnalyzedFile(file, extractClassesFromFile(file),
                     twClassListToPandaStyles(extractClassesFromFile(file).converted)).allTokens]

\* The loop for a file of which a step throws: readFileSync and
\* candidatesToCss are called before anything of the file is recorded, and
\* the catch block only warns
FailedFile(file) ==
  [analysis EXCEPT
     !.next = analysis.next + 1,
     !.warnings = Append(analysis.warnings, file.path)]

\* One turn of `for (const filePath of filePaths)`: the try block for the file,
\* or, when a step of it throws, the catch block, which only warns
AnalyzeFile ==
  /\ analysis.pc = "loop"
  /\ analysis.next <= Len(analysis.filePaths)
  /\ IF analysis.filePaths[analysis.next].fails # "none"
       THEN analysis' = FailedFile(analysis.filePaths[analysis.next])
       ELSE analysis' =
              AnalyzedFile(
                analysis.filePaths[analysis.next],
                extractClassesFromFile(analysis.filePaths[analysis.next]),
                twClassListToPandaStyles(
                  extractClassesFromFile(analysis.filePaths[analysis.next]).converted))
  /\ UNCHANGED <<stylesVars, htmlResult, cacheVars, batchVars, inference, fileVars>>

\* the threshold that leaves out a pattern seen exactly minPatternCount times
MeetsThresholdAbove(p, minPatternCount) == p.count > minPatternCount

\* `(p) => p.count >= minPatternCount`
MeetsThreshold(p, minPatternCount) == p.count >= minPatternCount

\* analyzeProject after the loop: the patterns and, of the summary of the
\* result, totalFiles and unconvertedClasses (uniqueUnconverted.size)
AnalyzeReturn ==
  /\ analysis.pc = "loop"
  /\ analysis.next > Len(analysis.filePaths)
  /\ analysis' = [analysis EXCEPT
                    !.pc = "returned",
                    !.files = analysis.fileAnalyses,
                    !.tokens = SortByCount(analysis.allTokens),
                    !.patterns = SortByCount(Filter(analysis.classPatterns,
                                        LAMBDA p : MeetsThreshold(p, analysis.minPatternCount))),
                    !.totalFiles = Len(analysis.fileAnalyses),
                    !.unconvertedClasses = Cardinality(UNION
                       {Range(analysis.fileAnalyses[f].unconvertedClasses) :
                          f \in DOMAIN analysis.fileAnalyses})]
  /\ UNCHANGED <<stylesVars, htmlResult, cacheVars, batchVars, inference, fileVars>>

(***************************************************************************)
(* analyze-project.ts: inferVariants                                       *)
(*                                                                         *)
(* JSON.stringify(a) === JSON.stringify(b) is modelled as a = b on style   *)
(* objects: the model keeps the keys of an object as a set, so two objects *)
(* that differ only in the order of their keys are equal here and unequal  *)
(* in the source.  The class lists of PatternClassLists give the nested    *)
(* objects their keys in one order, so no such pair arises.                *)
(***************************************************************************)

\* the most patterns inferVariants is given
MaxPatterns == 3

\* The class lists of the patterns the model gives to inferVariants.
\*   the first and the second share 2 of 4 classes (similarity 0.5), the
\*   third and the fourth 3 of 5; the fifth and the sixth differ within
\*   _hover; the next three share 4 of 7 and 5 of 7 classes; the last two
\*   share three classes whose text before the dash is short
PatternClassLists ==
  {<<<<"f","l","e","x">>, <<"p","-","4">>, <<"b","g","-","b","l","u","e","-","5","0","0">>>>,
   <<<<"f","l","e","x">>, <<"p","-","4">>, <<"b","g","-","r","e","d","-","5","0","0">>>>,
   <<<<"f","l","e","x">>, <<"p","-","4">>, <<"t","e","x","t","-","w","h","i","t","e">>, <<"b","g","-","b","l","u","e","-","5","0","0">>>>,
   <<<<"f","l","e","x">>, <<"p","-","4">>, <<"t","e","x","t","-","w","h","i","t","e">>, <<"b","g","-","r","e","d","-","5","0","0">>>>,
   <<<<"f","l","e","x">>, <<"p","-","4">>, <<"h","o","v","e","r",":","b","g","-","b","l","u","e","-","5","0","0">>, <<"h","o","v","e","r",":","h","i","d","d","e","n">>>>,
   <<<<"f","l","e","x">>, <<"p","-","4">>, <<"h","o","v","e","r",":","b","g","-","r","e","d","-","5","0","0">>, <<"h","o","v","e","r",":","h","i","d","d","e","n">>>>,
   <<<<"f","l","e","x">>, <<"t","r","u","n","c","a","t","e">>, <<"t","e","x","t","-","w","h","i","t","e">>, <<"d","a","r","k",":","t","e","x","t","-","w","h","i","t","e">>, <<"p","-","4">>, <<"b","g","-","b","l","u","e","-","5","0","0">>>>,
   <<<<"f","l","e","x">>, <<"t","r","u","n","c","a","t","e">>, <<"t","e","x","t","-","w","h","i","t","e">>, <<"d","a","r","k",":","t","e","x","t","-","w","h","i","t","e">>, <<"p","-","4">>, <<"b","g","-","r","e","d","-","5","0","0">>>>,
   <<<<"f","l","e","x">>, <<"t","r","u","n","c","a","t","e">>, <<"t","e","x","t","-","w","h","i","t","e">>, <<"d","a","r","k",":","t","e","x","t","-","w","h","i","t","e">>, <<"b","g","-","b","r","a","n","d">>>>,
   <<<<"b","g","-","b","l","u","e","-","5","0","0">>, <<"b","g","-","r","e","d","-","5","0","0">>, <<"p","-","4">>, <<"f","l","e","x">>>>,
   <<<<"b","g","-","b","l","u","e","-","5","0","0">>, <<"b","g","-","r","e","d","-","5","0","0">>, <<"p","-","4">>, <<"h","i","d","d","e","n">>>>}

\* ExtractedPattern, as analyzeProject's "Track class patterns" builds it
\* from the converted classes of a file and the styles of these classes
ExtractedPattern(classes, styles) ==
  [id      |-> generatePatternId(classes),
   classes |-> classes,
   styles  |-> mergeCss([i \in DOMAIN styles |-> styles[i].styles]),
   count   |-> 1,
   files   |-> <<"a.tsx">>]

\* the patterns of PatternClassLists
PatternUniverse ==
  {ExtractedPattern(classes, twClassListToPandaStyles(classes)) : classes \in PatternClassLists}

\* calculateSimilarity: intersection / union as a fraction, 0 when the union
\* is empty
calculateSimilarity(a, b) ==
  LET Ratio(intersection, union) ==
        IF union > 0 THEN [num |-> intersection, den |-> union]
                     ELSE [num |-> 0, den |-> 1]
  IN Ratio(Cardinality(Range(a) \cap Range(b)), Cardinality(Range(a) \cup Range(b)))

\* `similarity > 0.5`
IsSimilar(similarity) == 2 * similarity.num > similarity.den

\* the inner loop without `if (used.has(other.id)) continue`, the pattern
\* itself left out
RECURSIVE FindSimilarAmongAll(_, _, _, _)
FindSimilarAmongAll(pattern, patterns, j, found) ==
  IF j > Len(patterns) THEN found
  ELSE FindSimilarAmongAll(pattern, patterns, j + 1,
         IF /\ patterns[j].id # pattern.id
            /\ IsSimilar(calculateSimilarity(pattern.classes, patterns[j].classes))
           THEN [group |-> Append(found.group, patterns[j]),
                 used  |-> found.used \cup {patterns[j].id}]
           ELSE found)

\* groupSimilarPatterns, `for (const other of patterns)`: from the j-th
\* pattern on; found is the group so far and the ids used so far
RECURSIVE FindSimilar(_, _, _, _)
FindSimilar(pattern, patterns, j, found) ==
  IF j > Len(patterns) THEN found
  ELSE FindSimilar(pattern, patterns, j + 1,
         IF /\ patterns[j].id \notin found.used
            /\ IsSimilar(calculateSimilarity(pattern.classes, patterns[j].classes))
           THEN [group |-> Append(found.group, patterns[j]),
                 used  |-> found.used \cup {patterns[j].id}]
           ELSE found)

\* groupSimilarPatterns, `for (const pattern of patterns)`: from the i-th
\* pattern on; acc is the groups so far and the ids used so far
RECURSIVE GroupFrom(_, _, _)
GroupFrom(patterns, i, acc) ==
  LET Pushed(found) ==
        [groups |-> IF Len(found.group) >= 2 THEN Append(acc.groups, found.group)
                                             ELSE acc.groups,
         used   |-> found.used]
  IN IF i > Len(patterns) THEN acc.groups
     ELSE IF patterns[i].id \in acc.used THEN GroupFrom(patterns, i + 1, acc)
     ELSE GroupFrom(patterns, i + 1,
            Pushed(FindSimilar(patterns[i], patterns, 1,
                               [group |-> <<patterns[i]>>,
                                used  |-> acc.used \cup {patterns[i].id}])))

\* groupSimilarPatterns(patterns)
groupSimilarPatterns(patterns) == GroupFrom(patterns, 1, [groups |-> <<>>, used |-> {}])

\* findCommonStyles(stylesList): the top-level keys of the first style
\* object whose value every style object has
findCommonStyles(stylesList) ==
  IF Len(stylesList) = 0 THEN EmptyObj
  ELSE IF Len(stylesList) = 1 THEN stylesList[1]
  ELSE Obj([key \in {k \in DOMAIN stylesList[1].obj :
                       \A i \in DOMAIN stylesList :
                         /\ k \in DOMAIN stylesList[i].obj
                         /\ stylesList[i].obj[k] = stylesList[1].obj[k]}
              |-> stylesList[1].obj[key]])

\* inferVariantDimensions, the diff of one pattern: the top-level keys of its
\* styles whose value is not the value of the base
StyleDiff(styles, base) ==
  Obj([key \in {k \in DOMAIN styles.obj :
                  k \notin DOMAIN base.obj \/ base.obj[k] # styles.obj[k]}
         |-> styles.obj[key]])

\* inferVariantDimensions, diffs: the non-empty diffs, in the order of the
\* patterns
RECURSIVE Diffs(_, _)
Diffs(patterns, base) ==
  IF patterns = <<>> THEN <<>>
  ELSE (IF DOMAIN StyleDiff(Head(patterns).styles, base).obj # {}
          THEN <<StyleDiff(Head(patterns).styles, base)>> ELSE <<>>)
       \o Diffs(Tail(patterns), base)

sizeProps ==
  {<<"p","a","d","d","i","n","g">>, <<"p","a","d","d","i","n","g","X">>, <<"p","a","d","d","i","n","g","Y">>, <<"p">>, <<"p","x">>, <<"p","y">>, <<"f","o","n","t","S","i","z","e">>, <<"h","e","i","g","h","t">>, <<"w","i","d","t","h">>, <<"g","a","p">>}

visualProps == {<<"b","a","c","k","g","r","o","u","n","d","C","o","l","o","r">>, <<"b","g">>, <<"b","g","C","o","l","o","r">>, <<"c","o","l","o","r">>, <<"b","o","r","d","e","r","C","o","l","o","r">>}

\* the dimension inferVariantDimensions puts a key of a diff in
DimensionOf(key) ==
  IF \E p \in sizeProps : Includes(key, p) THEN "size"
  ELSE IF \E p \in visualProps : Includes(key, p) THEN "variant"
  ELSE "style"

\* sizeVariants, visualVariants and otherVariants: for the i-th diff with a
\* key of the dimension, the entry size<i>, variant<i> or style<i>, here
\* the entry i
DimensionVariants(diffs, dimension) ==
  [i \in {d \in DOMAIN diffs : \E k \in DOMAIN diffs[d].obj : DimensionOf(k) = dimension}
     |-> Obj([key \in {k \in DOMAIN diffs[i].obj : DimensionOf(k) = dimension}
                |-> diffs[i].obj[key]])]

\* `Object.keys(sizeVariants).length > 1` and its two likes
IsRetained(dimensionVariants) == Cardinality(DOMAIN dimensionVariants) > 1

\* the end of inferVariantDimensions: the dimensions with more than one entry
RetainedVariants(diffs) ==
  [dimension \in {d \in {"size", "variant", "style"} :
                    IsRetained(DimensionVariants(diffs, d))}
     |-> DimensionVariants(diffs, dimension)]

\* inferVariantDimensions(patterns, base)
inferVariantDimensions(patterns, base) == RetainedVariants(Diffs(patterns, base))

\* `Object.keys(variants).length > 0` that keeps a recipe without variants
HasVariantsAlways(variants) == TRUE

\* `Object.keys(variants).length > 0`
HasVariants(variants) == DOMAIN variants # {}

\* inferRecipeName(patterns): prefixes is the Map of the source as the list
\* of its keys, oldest first
inferRecipeName(patterns) ==
  LET PrefixOf(cls) ==
        IF IndexOf(cls, <<"-">>) = 0 THEN cls ELSE SubSeq(cls, 1, IndexOf(cls, <<"-">>) - 1)
      Count(allClasses, prefix) ==
        Cardinality({i \in DOMAIN allClasses : PrefixOf(allClasses[i]) = prefix})
      MaxPrefix(allClasses, prefixes) ==
        IF prefixes = <<>> THEN <<"c","o","m","p","o","n","e","n","t">>
        ELSE prefixes[CHOOSE i \in DOMAIN prefixes :
               /\ \A j \in DOMAIN prefixes :
                    Count(allClasses, prefixes[j]) <= Count(allClasses, prefixes[i])
               /\ \A j \in 1..(i - 1) :
                    Count(allClasses, prefixes[j]) < Count(allClasses, prefixes[i])]
      Named(allClasses) ==
        MaxPrefix(allClasses,
                  Dedupe(Filter(Map(allClasses, PrefixOf), LAMBDA prefix : Len(prefix) > 2)))
  IN Named(Flatten(Map(patterns, LAMBDA p : p.classes)))

\* InferredRecipe, without its code
InferredRecipe(group, base, variants) ==
  [name |-> inferRecipeName(group), base |-> base, variants |-> variants,
   sourcePatterns |-> group]

\* inferVariants is not running
IdleInference ==
  [pc |-> "idle", patterns |-> <<>>, groups |-> <<>>, next |-> 0, recipes |-> <<>>]

\* inferVariants up to its loop: the early return, or the groups
InferStart ==
  /\ inference.pc = "called"
  /\ IF Len(inference.patterns) < 2
       THEN inference' = [inference EXCEPT !.pc = "returned"]
       ELSE inference' = [inference EXCEPT
                            !.pc = "loop", !.next = 1,
                            !.groups = groupSimilarPatterns(inference.patterns)]
  /\ UNCHANGED <<stylesVars, htmlResult, cacheVars, batchVars, analysis, fileVars>>

\* the body of `for (const group of groups)` given base and variants
RecipesWith(recipes, group, base, variants) ==
  IF HasVariants(variants) THEN Append(recipes, InferredRecipe(group, base, variants))
                           ELSE recipes

\* the styles of the patterns of a group
StylesOf(group) == [i \in DOMAIN group |-> group[i].styles]

\* One turn of `for (const group of groups)`
InferGroup ==
  /\ inference.pc = "loop"
  /\ inference.next <= Len(inference.groups)
  /\ inference' =
       [inference EXCEPT
          !.next = inference.next + 1,
          !.recipes =
             IF Len(inference.groups[inference.next]) < 2 THEN inference.recipes
             ELSE RecipesWith(inference.recipes, inference.groups[inference.next],
                    findCommonStyles(StylesOf(inference.groups[inference.next])),
                    inferVariantDimensions(
                      inference.groups[inference.next],
                      findCommonStyles(StylesOf(inference.groups[inference.next]))))]
  /\ UNCHANGED <<stylesVars, htmlResult, cacheVars, batchVars, analysis, fileVars>>

\* inferVariants after the loop
InferReturn ==
  /\ inference.pc = "loop"
  /\ inference.next > Len(inference.groups)
  /\ inference' = [inference EXCEPT !.pc = "returned"]
  /\ UNCHANGED <<stylesVars, htmlResult, cacheVars, batchVars, analysis, fileVars>>

(***************************************************************************)
(* rewrite-tw-file-content-to-panda.ts (batch-processor.ts, from line 440) *)
(*                                                                         *)
(* A source file is the list of its import lines and the list of the nodes *)
(* forEachDescendant visits that can hold classes, in the order of the     *)
(* visit.  JSON.stringify(styleObject) is kept as the style object, and    *)
(* the output as the import lines and the nodes with their replacements:   *)
(* prettify only formats.  options.shorthands and options.range are unset, *)
(* as batchProcess and watchFiles leave them; the first argument of a cva  *)
(* call and the import of class-variance-authority are not modelled.       *)
(***************************************************************************)

\* the longest list of nodes of a source file
MaxNodes == 3

\* no replacement
NoEdit == [call |-> "none", styles |-> EmptyObj, kept |-> <<>>, braces |-> FALSE]

\* A node of a source file:
\*   kind      StringLiteral, TemplateHead, TemplateTail; Emitted for what a
\*             replacement left in the place of a node
\*   text      getStringLiteralText(node)
\*   parent    the kind of node.getParent()
\*   skipped   the node is under an ExportDeclaration
\*   insideCva the node is in the second argument of a cva call
SourceNode(kind, text, parent, skipped, insideCva) ==
  [kind |-> kind, text |-> text, parent |-> parent, skipped |-> skipped,
   insideCva |-> insideCva, edit |-> NoEdit]

\* The nodes the source files of the model are made of
SourceNodes ==
  {SourceNode("StringLiteral", <<"f","l","e","x"," ","p","-","4">>, "JsxAttribute", FALSE, FALSE),
   SourceNode("StringLiteral", <<"g","r","o","u","p"," ","f","l","e","x">>, "JsxAttribute", FALSE, FALSE),
   SourceNode("StringLiteral", <<"b","t","n">>, "JsxAttribute", FALSE, FALSE),
   SourceNode("StringLiteral", <<"f","r","o","m","-","r","e","d","-","5","0","0">>, "JsxAttribute", FALSE, FALSE),
   SourceNode("StringLiteral", <<"b","g","-","r","e","d","-","5","0","0">>, "ConditionalExpression", FALSE, FALSE),
   SourceNode("StringLiteral", <<"f","l","e","x">>, "ExportDeclaration", TRUE, FALSE),
   SourceNode("StringLiteral", <<"b","t","n"," ","p","-","4">>, "PropertyAssignment", FALSE, TRUE),
   SourceNode("StringLiteral", <<>>, "JsxAttribute", FALSE, FALSE),
   SourceNode("TemplateHead", <<"t","e","x","t","-","w","h","i","t","e"," ">>, "TemplateExpression", FALSE, FALSE),
   SourceNode("TemplateHead", <<"g","r","o","u","p"," ","p","-","4"," ">>, "TemplateExpression", FALSE, FALSE),
   SourceNode("TemplateHead", <<>>, "TemplateExpression", FALSE, FALSE),
   SourceNode("TemplateTail", <<" ">>, "TemplateSpan", FALSE, FALSE),
   SourceNode("TemplateTail", <<" ","p","-","4">>, "TemplateSpan", FALSE, FALSE)}

\* The node lists that are source files: a template literal is a head, the
\* strings of its substitution and a tail
IsSourceFile(nodes) ==
  /\ \A i \in DOMAIN nodes :
       nodes[i].kind = "TemplateHead" =>
         \E j \in (i + 1)..Len(nodes) :
           /\ nodes[j].kind = "TemplateTail"
           /\ \A k \in (i + 1)..(j - 1) : nodes[k].parent = "ConditionalExpression"
  /\ \A j \in DOMAIN nodes :
       nodes[j].kind = "TemplateTail" =>
         \E i \in 1..(j - 1) :
           /\ nodes[i].kind = "TemplateHead"
           /\ \A k \in (i + 1)..(j - 1) : nodes[k].parent = "ConditionalExpression"

\* relative(relativeFile, outdirCssPath) for a file of the working directory
\* and the default outdir: ../styled-system/css
OutdirCssPath == <<".",".","/","s","t","y","l","e","d","-","s","y","s","t","e","m","/","c","s","s">>

\* `new Set(string.split(" ").filter(Boolean))`, in the order of iteration
RECURSIVE SplitOnSpace(_)
SplitOnSpace(string) ==
  IF IndexOf(string, <<" ">>) = 0 THEN (IF string = <<>> THEN <<>> ELSE <<string>>)
  ELSE (IF IndexOf(string, <<" ">>) = 1 THEN <<>>
        ELSE <<SubSeq(string, 1, IndexOf(string, <<" ">>) - 1)>>)
       \o SplitOnSpace(From(string, IndexOf(string, <<" ">>) + 1))

\* categorizeClasses(classList, tailwind)
categorizeClasses(classList) ==
  [twClasses     |-> Filter(classList, LAMBDA cls :
                       ~isTailwindMarkerClass(cls) /\ candidatesToCss(cls).css),
   markerClasses |-> Filter(classList, isTailwindMarkerClass),
   customClasses |-> Filter(classList, LAMBDA cls :
                       ~isTailwindMarkerClass(cls) /\ ~candidatesToCss(cls).css)]

\* importFrom(values, mod)
importFrom(values, mod) == <<"i","m","p","o","r","t"," ","{"," ">> \o Join(values, <<","," ">>) \o <<" ","}"," ","f","r","o","m"," ","'">> \o mod \o <<"'",";">>

\* isStringLike(node): a string literal or a template literal without
\* substitutions
isStringLike(node) == node.kind = "StringLiteral"

\* The locals of rewriteTwFileContentToPanda during the visit: edits has the
\* replacement of each node visited so far
StartOfVisit == [isInsideCx |-> FALSE, imports |-> <<<<"c","s","s">>>>, resultList |-> <<>>, edits |-> <<>>]

\* the visit of a node returns without a replacement
Unedited(t) == [t EXCEPT !.edits = Append(t.edits, NoEdit)]

\* `if (Node.isTemplateHead(node))`: the head becomes `cx(css(<styles>), <kept>,`
VisitTemplateHead(t, node) ==
  LET Converted(categorized, styles) ==
        IF categorized.twClasses = <<>> \/ styles = <<>> THEN Unedited(t)
        ELSE [isInsideCx |-> TRUE,
              imports    |-> IF <<"c","x">> \in Range(t.imports) THEN t.imports
                                                         ELSE Append(t.imports, <<"c","x">>),
              resultList |-> Append(t.resultList,
                               [classList |-> categorized.twClasses,
                                styles    |-> mergeCss([i \in DOMAIN styles |-> styles[i].styles]),
                                node      |-> Len(t.edits) + 1]),
              edits      |-> Append(t.edits,
                               [call   |-> "cx(",
                                styles |-> mergeCss([i \in DOMAIN styles |-> styles[i].styles]),
                                kept   |-> categorized.markerClasses \o categorized.customClasses,
                                braces |-> FALSE])]
  IN Converted(categorizeClasses(Dedupe(SplitOnSpace(node.text))),
               twClassListToPandaStyles(
                 categorizeClasses(Dedupe(SplitOnSpace(node.text))).twClasses))

\* `if (isInsideCx && Node.isTemplateTail(node))`: the tail becomes `)`
VisitTemplateTail(t, node) ==
  IF t.isInsideCx
    THEN [t EXCEPT !.isInsideCx = FALSE,
                   !.edits = Append(t.edits, [NoEdit EXCEPT !.call = ")"])]
    ELSE Unedited(t)

\* `if (isStringLike(node))`: the string becomes the text of the classes
\* kept ("string"), the style object ("object", inside cva), `cx(css(<styles>),
\* <kept>)` ("cx") or `css(<styles>)` ("css"), in braces as a JSX attribute
VisitStringLike(t, node) ==
  LET Kept(categorized) == categorized.markerClasses \o categorized.customClasses
      Converted(categorized, styles) ==
        IF categorized.twClasses = <<>>
          THEN IF Kept(categorized) # <<>> /\ node.parent = "JsxAttribute"
                 THEN [t EXCEPT !.edits = Append(t.edits,
                                  [NoEdit EXCEPT !.call = "string", !.kept = Kept(categorized)])]
                 ELSE Unedited(t)
        ELSE IF styles = <<>> THEN Unedited(t)
        ELSE [isInsideCx |-> t.isInsideCx,
              imports    |-> IF node.insideCva \/ Kept(categorized) = <<>>
                                  \/ <<"c","x">> \in Range(t.imports)
                               THEN t.imports ELSE Append(t.imports, <<"c","x">>),
              resultList |-> Append(t.resultList,
                               [classList |-> categorized.twClasses,
                                styles    |-> mergeCss([i \in DOMAIN styles |-> styles[i].styles]),
                                node      |-> Len(t.edits) + 1]),
              edits      |-> Append(t.edits,
                               [call   |-> IF node.insideCva THEN "object"
                                           ELSE IF Kept(categorized) # <<>> THEN "cx"
                                           ELSE "css",
                                styles |-> mergeCss([i \in DOMAIN styles |-> styles[i].styles]),
                                kept   |-> IF node.insideCva THEN <<>> ELSE Kept(categorized),
                                braces |-> ~t.isInsideCx /\ node.parent = "JsxAttribute"])]
  IN Converted(categorizeClasses(Dedupe(SplitOnSpace(node.text))),
               twClassListToPandaStyles(
                 categorizeClasses(Dedupe(SplitOnSpace(node.text))).twClasses))

\* The callback of forEachDescendant for one node.  A node under an
\* ExportDeclaration is not visited (traversal.skip()); the strings inside
\* an emitted call are visited on a later pass, and the model leaves the
\* call as it is
VisitNode(t, node) ==
  IF node.skipped \/ node.kind = "Emitted" THEN Unedited(t)
  ELSE IF node.kind = "TemplateHead" THEN VisitTemplateHead(t, node)
  ELSE IF node.kind = "TemplateTail" THEN VisitTemplateTail(t, node)
  ELSE IF isStringLike(node) THEN VisitStringLike(t, node)
  ELSE Unedited(t)

\* sourceFile.forEachDescendant
RECURSIVE Traverse(_, _)
Traverse(nodes, t) ==
  IF nodes = <<>> THEN t ELSE Traverse(Tail(nodes), VisitNode(t, Head(nodes)))

\* rewriteTwFileContentToPanda(content, ...): [output, resultList]
rewriteTwFileContentToPanda(content) ==
  LET Returned(t) ==
        [output |->
           [importLines |-> IF t.imports # <<>>
                              THEN <<importFrom(t.imports, OutdirCssPath)>> \o content.importLines
                              ELSE content.importLines,
            nodes |-> [i \in DOMAIN content.nodes |->
                         IF t.edits[i] = NoEdit THEN content.nodes[i]
                         ELSE [content.nodes[i] EXCEPT !.kind = "Emitted",
                                                        !.edit = t.edits[i]]]],
         resultList |-> t.resultList]
  IN Returned(Traverse(content.nodes, StartOfVisit))

\* rewriteTwFileContentToPanda is not running
IdleRewrite ==
  [pc |-> "idle", content |-> [importLines |-> <<>>, nodes |-> <<>>],
   result |-> [output |-> [importLines |-> <<>>, nodes |-> <<>>], resultList |-> <<>>]]

\* rewriteTwFileContentToPanda returns
RewriteFile ==
  /\ rewrite.pc = "called"
  /\ rewrite' = [rewrite EXCEPT !.pc = "returned",
                                !.result = rewriteTwFileContentToPanda(rewrite.content)]
  /\ UNCHANGED <<stylesVars, htmlResult, cacheVars, batchVars, analysis, inference, wizard,
                 watch>>

(***************************************************************************)
(* interactive.ts: the interactive wizard (runInteractive)                 *)
(*                                                                         *)
(* A step of the wizard up to the answer to its prompt is one action.  A   *)
(* call of batchProcess is taken whole, by the results and the writes of   *)
(* processFile for each file; analyzeProject by the files it returns, or   *)
(* by its throwing.  console.log and the printing of a diff are left out.  *)
(***************************************************************************)

\* the most files analyzeProject finds for the wizard
MaxProject == 2

LowerCaseLetters ==
  {"a", "b", "c", "d", "e", "f", "g", "h", "i", "j", "k", "l", "m",
   "n", "o", "p", "q", "r", "s", "t", "u", "v", "w", "x", "y", "z"}

\* String.prototype.toLowerCase
toLowerCase(s) ==
  [i \in DOMAIN s |->
     IF \E l \in LowerCaseLetters : ToUpperCase(l) = s[i]
       THEN CHOOSE l \in LowerCaseLetters : ToUpperCase(l) = s[i]
       ELSE s[i]]

\* what the user types at the prompts of the wizard
SelectTyped == {<<>>, <<"Y">>, <<"n">>, <<"N"," ">>, <<"s","e","l","e","c","t">>, <<"n","o">>}

SelectionTyped == {<<"a","l","l">>, <<"1">>, <<"2",","," ","1">>, <<"1",",","1">>, <<"7",",","x">>, <<>>}

DiffTyped == {<<"s","k","i","p">>, <<"p","a","g","e">>}

ApplyTyped == {<<"y","e","s">>, <<"Y","E","S">>, <<" ","y","e","s">>, <<"y">>, <<"n","o">>, <<>>}

\* prompt(ctx, question): `resolve(answer.trim())`
prompt(typed) == Trim(typed)

\* String.prototype.split(",")
RECURSIVE SplitOnComma(_)
SplitOnComma(s) ==
  IF IndexOf(s, <<",">>) = 0 THEN <<s>>
  ELSE <<SubSeq(s, 1, IndexOf(s, <<",">>) - 1)>> \o SplitOnComma(From(s, IndexOf(s, <<",">>) + 1))

\* `parseInt(s.trim(), 10) - 1` for a text without a sign: the digits the
\* text begins with; NaN, which no comparison holds of, is -1 here
ParseIndex(s) ==
  LET Leading(t) == SubSeq(t, 1, SkipWhile(t, 1, Digits) - 1)
  IN IF Leading(Trim(s)) = <<>> THEN 0 - 1 ELSE DigitsToNat(Leading(Trim(s))) - 1

\* selectIndividualFiles, given the answer
selectIndividualFiles(files, answer) ==
  IF toLowerCase(answer) = <<"a","l","l">> THEN files
  ELSE Map(Filter(Map(SplitOnComma(answer), ParseIndex),
                  LAMBDA i : i >= 0 /\ i < Len(files)),
           LAMBDA i : files[i + 1])

\* batchProcess with the selected files as patterns: fast-glob returns no
\* file twice.  results are the results of the files; written the output
\* paths writeFile succeeded for
batchProcess(selectedFiles, dryRun) ==
  LET Result(file) ==
        IF ~ProcessFileSync(file, dryRun).settled /\ ~file.write
          THEN FileResult(file, "error", "EACCES")
          ELSE ProcessFileSync(file, dryRun).result
  IN [summary |-> Summary(Map(Dedupe(selectedFiles), Result)),
      written |-> {OutputPath(file) : file \in
                     {f \in Range(selectedFiles) :
                        ~ProcessFileSync(f, dryRun).settled /\ f.write}}]

\* `answer.toLowerCase() !== "yes"` negated, with the comparison
\* `answer !== "no"` in its place
ApplyConfirmedUnlessNo(answer) == toLowerCase(answer) # <<"n","o">>

\* applyStep: the answer lets the changes be applied
ApplyConfirmed(answer) == ~(toLowerCase(answer) # <<"y","e","s">>)

\* runInteractive is not running
\*   files          ctx.analysis.files, by their paths
\*   previewResult  <<>> while unset, else <<result.summary>>
\*   answers        the trimmed answer to each prompt asked so far
\*   steps          the steps entered so far
\*   written        the output paths written, each with the step that wrote
\*   rlOpen         rl is created and not closed
IdleWizard ==
  [pc |-> "idle", files |-> <<>>, analyzeThrows |-> FALSE, selectedFiles |-> <<>>,
   previewResult |-> <<>>, answers |-> <<>>, steps |-> <<>>, written |-> {},
   rlOpen |-> FALSE]

\* a prompt is answered
Answered(w, question, answer) ==
  [w EXCEPT !.answers = Append(w.answers, [question |-> question, answer |-> answer])]

\* a step is entered
Entered(w, step) == [w EXCEPT !.steps = Append(w.steps, step)]

\* `finally { rl.close() }`, then runInteractive returns or throws
Closed(w, pc) == [w EXCEPT !.pc = pc, !.rlOpen = FALSE]

\* showWelcome
WizardWelcome ==
  /\ wizard.pc = "showWelcome"
  /\ wizard' = [Answered(Entered(wizard, "showWelcome"), "begin", <<>>)
                  EXCEPT !.pc = "analyzeStep"]
  /\ UNCHANGED <<stylesVars, htmlResult, cacheVars, batchVars, analysis, inference, rewrite,
                 watch>>

\* analyzeStep: analyzeProject throws, which is no USER_ABORT and is thrown
\* on after the finally block, or it returns and the prompt is answered
WizardAnalyze ==
  /\ wizard.pc = "analyzeStep"
  /\ IF wizard.analyzeThrows
       THEN wizard' = Closed(Entered(wizard, "analyzeStep"), "threw")
       ELSE wizard' = [Answered(Entered(wizard, "analyzeStep"), "continue", <<>>)
                         EXCEPT !.pc = "selectFilesStep"]
  /\ UNCHANGED <<stylesVars, htmlResult, cacheVars, batchVars, analysis, inference, rewrite,
                 watch>>

\* selectFilesStep, given the answer to "Convert all files?"
SelectedFiles(w, answer) ==
  IF toLowerCase(answer) = <<"n">> THEN Closed(Answered(w, "convertAll", answer), "returned")
  ELSE IF toLowerCase(answer) = <<"s","e","l","e","c","t">>
    THEN [Answered(w, "convertAll", answer) EXCEPT !.pc = "selectIndividualFiles"]
  ELSE [Answered(w, "convertAll", answer) EXCEPT !.pc = "previewStep",
                                                 !.selectedFiles = w.files]

\* selectFilesStep up to the answer to its prompt
WizardSelectFiles ==
  /\ wizard.pc = "selectFilesStep"
  /\ IF wizard.files = <<>>
       THEN wizard' = [Entered(wizard, "selectFilesStep") EXCEPT !.pc = "previewStep"]
       ELSE \E typed \in SelectTyped :
              wizard' = SelectedFiles(Entered(wizard, "selectFilesStep"), prompt(typed))
  /\ UNCHANGED <<stylesVars, htmlResult, cacheVars, batchVars, analysis, inference, rewrite,
                 watch>>

\* selectIndividualFiles and the end of selectFilesStep
WizardSelectIndividualFiles ==
  /\ wizard.pc = "selectIndividualFiles"
  /\ \E typed \in SelectionTyped :
       wizard' = [Answered(wizard, "selection", prompt(typed))
                    EXCEPT !.pc = "previewStep",
                           !.selectedFiles = selectIndividualFiles(wizard.files, prompt(typed))]
  /\ UNCHANGED <<stylesVars, htmlResult, cacheVars, batchVars, analysis, inference, rewrite,
                 watch>>

\* previewStep after batchProcess with dryRun: true
Previewed(w, result, answer) ==
  [Answered(w, "viewDiff", answer)
     EXCEPT !.pc = "applyStep", !.previewResult = <<result.summary>>,
            !.written = w.written \cup {[path |-> p, step |-> "previewStep"] : p \in result.written}]

\* previewStep
WizardPreview ==
  /\ wizard.pc = "previewStep"
  /\ IF wizard.selectedFiles = <<>>
       THEN wizard' = [Entered(wizard, "previewStep") EXCEPT !.pc = "applyStep"]
       ELSE \E typed \in DiffTyped :
              wizard' = Previewed(Entered(wizard, "previewStep"),
                                  batchProcess(wizard.selectedFiles, TRUE), prompt(typed))
  /\ UNCHANGED <<stylesVars, htmlResult, cacheVars, batchVars, analysis, inference, rewrite,
                 watch>>

\* applyStep after its prompt
Applied(w, answer) ==
  IF ~ApplyConfirmed(answer)
    THEN [Answered(w, "apply", answer) EXCEPT !.pc = "finishStep"]
    ELSE [Answered(w, "apply", answer)
            EXCEPT !.pc = "finishStep",
                   !.written = w.written \cup
                     {[path |-> p, step |-> "applyStep"] :
                        p \in batchProcess(w.selectedFiles, FALSE).written}]

\* applyStep
WizardApply ==
  /\ wizard.pc = "applyStep"
  /\ IF \/ wizard.selectedFiles = <<>>
        \/ wizard.previewResult = <<>>
        \/ wizard.previewResult[1].success = 0
       THEN wizard' = [Entered(wizard, "applyStep") EXCEPT !.pc = "finishStep"]
       ELSE \E typed \in ApplyTyped :
              wizard' = Applied(Entered(wizard, "applyStep"), prompt(typed))
  /\ UNCHANGED <<stylesVars, htmlResult, cacheVars, batchVars, analysis, inference, rewrite,
                 watch>>

\* finishStep, and runInteractive returns
WizardFinish ==
  /\ wizard.pc = "finishStep"
  /\ wizard' = Closed(Entered(wizard, "finishStep"), "returned")
  /\ UNCHANGED <<stylesVars, htmlResult, cacheVars, batchVars, analysis, inference, rewrite,
                 watch>>

(***************************************************************************)
(* interactive.ts, from line 338: watch mode (watchFiles)                  *)
(*                                                                         *)
(* One TS/JS file is watched, without outDir, so outputPath is the path of *)
(* the file.  The watcher raises a change event for every write to the     *)
(* file, the writes of processFile included: the file is under the watched *)
(* patterns and chokidar does not tell who wrote.                          *)
(***************************************************************************)

\* the most writes of processFile the model follows
MaxWrites == 3

\* watchFiles is not running
IdleWatch ==
  [pc |-> "idle", saved |-> [importLines |-> <<>>, nodes |-> <<>>],
   content |-> [importLines |-> <<>>, nodes |-> <<>>], events |-> 0, writes |-> 0,
   passes |-> 0]

\* processFile after readFileSync, given the output of the rewriter:
\* `if (converted === content) return`, else writeFile, which raises the
\* next change event
ProcessedFile(w, output) ==
  IF output = w.content
    THEN [w EXCEPT !.events = w.events - 1, !.passes = w.passes + 1]
    ELSE [w EXCEPT !.content = output, !.writes = w.writes + 1,
                   !.passes = w.passes + 1]

\* watcher.on("change", processFile) for a file with a TS/JS extension
WatchProcessFile ==
  /\ watch.pc = "watching"
  /\ watch.events > 0
  /\ watch.writes < MaxWrites
  /\ watch' = ProcessedFile(watch, rewriteTwFileContentToPanda(watch.content).output)
  /\ UNCHANGED <<stylesVars, htmlResult, cacheVars, batchVars, analysis, inference, rewrite,
                 wizard>>

\* stop(): watcher.close()
WatchStop ==
  /\ watch.pc = "watching"
  /\ watch' = [watch EXCEPT !.pc = "stopped", !.events = 0]
  /\ UNCHANGED <<stylesVars, htmlResult, cacheVars, batchVars, analysis, inference, rewrite,
                 wizard>>

(***************************************************************************)
(* The calls and the specifications                                        *)
(***************************************************************************)

NotConverted ==
  [hasPandaString |-> FALSE, finalStyles |-> EmptyObj, styles |-> <<>>,
   unconverted |-> <<>>, classesToKeep |-> <<>>]

\* the longest list of class attributes of a html document
MaxAttributes == 2

\* the values of the class attributes of the html documents
AttributeValues ==
  {<<"f","l","e","x">>, <<"f","l","e","x"," ","f","r","o","m","-","r","e","d","-","5","0","0">>, <<"f","r","o","m","-","r","e","d","-","5","0","0">>, <<"g","r","o","u","p"," ","b","t","n">>, <<"b","t","n"," ","g","r","o","u","p"," ","f","l","e","x">>,
   <<"h","o","v","e","r",":","b","g","-","b","l","u","e","-","5","0","0"," ","p","e","e","r","/","m","e","n","u">>, <<"b","g","-","b","l","u","e","-","5","0","0"," ","b","g","-","r","e","d","-","5","0","0">>, <<"b","g","-","b","l","u","e","-","5","0","0","!">>}

\* the state before any part of the program is called
Idle ==
  [themeSpacing |-> [found |-> TRUE, value |-> <<"0",".","2","5","r","e","m">>],
   classString |-> <<>>,
   converted   |-> [pc |-> "idle", result |-> NotConverted],
   htmlResult  |-> [pc |-> "idle",
                    result |-> [classMatches |-> <<>>, replacements |-> <<>>,
                                unconvertedClasses |-> <<>>, usesCx |-> FALSE]],
   cachedDesignSystem |-> Null,
   cachedCss   |-> Null,
   built       |-> 0,
   calls       |-> [p \in Callers |-> IdleCall],
   history     |-> <<>>,
   batch       |-> IdleBatch,
   tasks       |-> <<>>,
   disk        |-> [dirs |-> {}, files |-> {}],
   analysis    |-> IdleAnalysis,
   inference   |-> IdleInference,
   rewrite     |-> IdleRewrite,
   wizard      |-> IdleWizard,
   watch       |-> IdleWatch]

\* convertClassesToPandaString is called with a class string
Init ==
  /\ \E spacing \in ThemeSpacings : themeSpacing = spacing
  /\ \E names \in SeqsUpTo(ClassUniverse, MaxClasses) : classString = Join(names, <<" ">>)
  /\ converted = [pc |-> "called", result |-> NotConverted]
  /\ htmlResult = Idle.htmlResult
  /\ cachedDesignSystem = Idle.cachedDesignSystem /\ cachedCss = Idle.cachedCss
  /\ built = Idle.built /\ calls = Idle.calls /\ history = Idle.history
  /\ rewrite = Idle.rewrite /\ wizard = Idle.wizard /\ watch = Idle.watch
  /\ batch = Idle.batch /\ tasks = Idle.tasks /\ disk = Idle.disk
  /\ analysis = Idle.analysis /\ inference = Idle.inference

\* convertClassesToPandaString returns
ConvertClasses ==
  /\ converted.pc = "called"
  /\ converted' = [pc |-> "returned", result |-> convertClassesToPandaString(classString)]
  /\ UNCHANGED <<themeSpacing, classString, htmlResult, cacheVars, batchVars, analysis,
                 inference, fileVars>>

Next == ConvertClasses

Spec == Init /\ [][Next]_vars

\* rewriteHtmlToPanda is called with a document
InitHtml ==
  /\ themeSpacing = Idle.themeSpacing
  /\ \E html \in SeqsUpTo(AttributeValues, MaxAttributes) :
       htmlResult = [pc |-> "called",
                     result |-> [Idle.htmlResult.result EXCEPT !.classMatches = html]]
  /\ classString = Idle.classString /\ converted = Idle.converted
  /\ cachedDesignSystem = Idle.cachedDesignSystem /\ cachedCss = Idle.cachedCss
  /\ built = Idle.built /\ calls = Idle.calls /\ history = Idle.history
  /\ rewrite = Idle.rewrite /\ wizard = Idle.wizard /\ watch = Idle.watch
  /\ batch = Idle.batch /\ tasks = Idle.tasks /\ disk = Idle.disk
  /\ analysis = Idle.analysis /\ inference = Idle.inference

\* rewriteHtmlToPanda returns
RewriteHtml ==
  /\ htmlResult.pc = "called"
  /\ htmlResult' = [pc |-> "returned",
                    result |-> rewriteHtmlToPanda(htmlResult.result.classMatches)]
  /\ UNCHANGED <<stylesVars, cacheVars, batchVars, analysis, inference, fileVars>>

NextHtml == RewriteHtml

SpecHtml == InitHtml /\ [][NextHtml]_vars

\* createTailwindContext and clearTailwindContextCache, every call awaited
\* before the next
InitCache ==
  /\ themeSpacing = Idle.themeSpacing
  /\ classString = Idle.classString /\ converted = Idle.converted
  /\ htmlResult = Idle.htmlResult
  /\ cachedDesignSystem = Idle.cachedDesignSystem /\ cachedCss = Idle.cachedCss
  /\ built = Idle.built /\ calls = Idle.calls /\ history = Idle.history
  /\ rewrite = Idle.rewrite /\ wizard = Idle.wizard /\ watch = Idle.watch
  /\ batch = Idle.batch /\ tasks = Idle.tasks /\ disk = Idle.disk
  /\ analysis = Idle.analysis /\ inference = Idle.inference

AwaitedCreate(p, cssOrConfig) == NoCallPending /\ CallCreate(p, cssOrConfig)

AwaitedClear == NoCallPending /\ clearTailwindContextCache

NextCache ==
  \/ \E p \in Callers, cssOrConfig \in ConfigArguments : AwaitedCreate(p, cssOrConfig)
  \/ \E p \in Callers : LoadResolves(p)
  \/ \E p \in Callers : LoadRejects(p)
  \/ AwaitedClear

SpecCache == InitCache /\ [][NextCache]_vars

\* createTailwindContext and clearTailwindContextCache, called while earlier
\* calls are at their await
NextOverlap ==
  \/ \E p \in Callers, cssOrConfig \in ConfigArguments : CallCreate(p, cssOrConfig)
  \/ \E p \in Callers : LoadResolves(p)
  \/ \E p \in Callers : LoadRejects(p)
  \/ clearTailwindContextCache

SpecOverlap == InitCache /\ [][NextOverlap]_vars

\* batchProcess is called for a list of matched files
InitBatch ==
  /\ themeSpacing = Idle.themeSpacing
  /\ \E files \in SeqsUpTo(BatchFiles, MaxFiles), concurrency \in MinConcurrency..MaxConcurrency,
        dryRun \in BOOLEAN :
       \* fast-glob returns no file twice
       /\ \A i, j \in DOMAIN files : files[i] = files[j] => i = j
       /\ batch = [IdleBatch EXCEPT !.pc = "called", !.files = files,
                                    !.concurrency = concurrency, !.dryRun = dryRun]
  /\ tasks = Idle.tasks /\ disk = Idle.disk
  /\ classString = Idle.classString /\ converted = Idle.converted
  /\ htmlResult = Idle.htmlResult
  /\ cachedDesignSystem = Idle.cachedDesignSystem /\ cachedCss = Idle.cachedCss
  /\ built = Idle.built /\ calls = Idle.calls /\ history = Idle.history
  /\ rewrite = Idle.rewrite /\ wizard = Idle.wizard /\ watch = Idle.watch
  /\ analysis = Idle.analysis /\ inference = Idle.inference

NextBatch ==
  \/ BatchStart
  \/ LaunchChunk
  \/ \E k \in DOMAIN tasks : MkdirDone(k)
  \/ \E k \in DOMAIN tasks : WriteFileDone(k)
  \/ ResumeCallback
  \/ JoinChunk

SpecBatch == InitBatch /\ [][NextBatch]_vars

\* batchProcess on an event loop that runs every callback that is ready
SpecBatchFair == SpecBatch /\ WF_vars(NextBatch)

\* analyzeProject is called for a directory
InitAnalyze ==
  /\ themeSpacing = Idle.themeSpacing
  /\ \E filePaths \in SeqsUpTo(AnalyzedFiles, MaxAnalyzed),
        minPatternCount \in MinPatternCounts :
       /\ \A i, j \in DOMAIN filePaths : filePaths[i] = filePaths[j] => i = j
       /\ analysis = [IdleAnalysis EXCEPT !.pc = "called", !.filePaths = filePaths,
                                          !.minPatternCount = minPatternCount]
  /\ classString = Idle.classString /\ converted = Idle.converted
  /\ htmlResult = Idle.htmlResult
  /\ cachedDesignSystem = Idle.cachedDesignSystem /\ cachedCss = Idle.cachedCss
  /\ built = Idle.built /\ calls = Idle.calls /\ history = Idle.history
  /\ rewrite = Idle.rewrite /\ wizard = Idle.wizard /\ watch = Idle.watch
  /\ batch = Idle.batch /\ tasks = Idle.tasks /\ disk = Idle.disk
  /\ inference = Idle.inference

NextAnalyze ==
  \/ AnalyzeStart
  \/ AnalyzeFile
  \/ AnalyzeReturn

SpecAnalyze == InitAnalyze /\ [][NextAnalyze]_vars

\* inferVariants is called with a list of patterns of distinct ids
InitInfer ==
  /\ themeSpacing = Idle.themeSpacing
  /\ \E patterns \in SeqsUpTo(PatternUniverse, MaxPatterns) :
       /\ \A i, j \in DOMAIN patterns : patterns[i] = patterns[j] => i = j
       /\ inference = [IdleInference EXCEPT !.pc = "called", !.patterns = patterns]
  /\ classString = Idle.classString /\ converted = Idle.converted
  /\ htmlResult = Idle.htmlResult
  /\ cachedDesignSystem = Idle.cachedDesignSystem /\ cachedCss = Idle.cachedCss
  /\ built = Idle.built /\ calls = Idle.calls /\ history = Idle.history
  /\ rewrite = Idle.rewrite /\ wizard = Idle.wizard /\ watch = Idle.watch
  /\ batch = Idle.batch /\ tasks = Idle.tasks /\ disk = Idle.disk
  /\ analysis = Idle.analysis

NextInfer ==
  \/ InferStart
  \/ InferGroup
  \/ InferReturn

SpecInfer == InitInfer /\ [][NextInfer]_vars

\* rewriteTwFileContentToPanda is called with a source file
InitRewrite ==
  /\ themeSpacing = Idle.themeSpacing
  /\ \E nodes \in SeqsUpTo(SourceNodes, MaxNodes) :
       /\ IsSourceFile(nodes)
       /\ rewrite = [IdleRewrite EXCEPT !.pc = "called", !.content.nodes = nodes]
  /\ classString = Idle.classString /\ converted = Idle.converted
  /\ htmlResult = Idle.htmlResult
  /\ cachedDesignSystem = Idle.cachedDesignSystem /\ cachedCss = Idle.cachedCss
  /\ built = Idle.built /\ calls = Idle.calls /\ history = Idle.history
  /\ batch = Idle.batch /\ tasks = Idle.tasks /\ disk = Idle.disk
  /\ analysis = Idle.analysis /\ inference = Idle.inference
  /\ wizard = Idle.wizard /\ watch = Idle.watch

NextRewrite == RewriteFile

SpecRewrite == InitRewrite /\ [][NextRewrite]_vars

\* watchFiles is watching a source file the user has just saved
InitWatch ==
  /\ themeSpacing = Idle.themeSpacing
  /\ \E nodes \in SeqsUpTo(SourceNodes, MaxNodes) :
       /\ IsSourceFile(nodes)
       /\ watch = [IdleWatch EXCEPT !.pc = "watching", !.saved.nodes = nodes,
                                    !.content.nodes = nodes, !.events = 1]
  /\ classString = Idle.classString /\ converted = Idle.converted
  /\ htmlResult = Idle.htmlResult
  /\ cachedDesignSystem = Idle.cachedDesignSystem /\ cachedCss = Idle.cachedCss
  /\ built = Idle.built /\ calls = Idle.calls /\ history = Idle.history
  /\ batch = Idle.batch /\ tasks = Idle.tasks /\ disk = Idle.disk
  /\ analysis = Idle.analysis /\ inference = Idle.inference
  /\ rewrite = Idle.rewrite /\ wizard = Idle.wizard

NextWatch == WatchProcessFile \/ WatchStop

SpecWatch == InitWatch /\ [][NextWatch]_vars

\* runInteractive is called: rl is created, and the files analyzeProject will
\* return are those of the project
InitWizard ==
  /\ themeSpacing = Idle.themeSpacing
  /\ \E files \in SeqsUpTo(BatchFiles, MaxProject), analyzeThrows \in BOOLEAN :
       /\ \A i, j \in DOMAIN files : files[i] = files[j] => i = j
       /\ wizard = [IdleWizard EXCEPT !.pc = "showWelcome", !.files = files,
                                      !.analyzeThrows = analyzeThrows, !.rlOpen = TRUE]
  /\ classString = Idle.classString /\ converted = Idle.converted
  /\ htmlResult = Idle.htmlResult
  /\ cachedDesignSystem = Idle.cachedDesignSystem /\ cachedCss = Idle.cachedCss
  /\ built = Idle.built /\ calls = Idle.calls /\ history = Idle.history
  /\ batch = Idle.batch /\ tasks = Idle.tasks /\ disk = Idle.disk
  /\ analysis = Idle.analysis /\ inference = Idle.inference
  /\ rewrite = Idle.rewrite /\ watch = Idle.watch

NextWizard ==
  \/ WizardWelcome
  \/ WizardAnalyze
  \/ WizardSelectFiles
  \/ WizardSelectIndividualFiles
  \/ WizardPreview
  \/ WizardApply
  \/ WizardFinish

SpecWizard == InitWizard /\ [][NextWizard]_vars

(***************************************************************************)
(* Properties                                                              *)
(***************************************************************************)

\* the paths (sequences of keys) that lead to the leaves of a style object
RECURSIVE LeafPaths(_)
LeafPaths(x) ==
  IF IsObj(x)
    THEN UNION {{<<k>> \o p : p \in LeafPaths(x.obj[k])} : k \in DOMAIN x.obj}
    ELSE {<<>>}

\* the value a style object holds at a path
RECURSIVE ValueAt(_, _)
ValueAt(x, path) == IF path = <<>> THEN x ELSE ValueAt(x.obj[Head(path)], Tail(path))

\* the keys of a style object of one leaf, outermost first
RECURSIVE KeyChain(_)
KeyChain(x) ==
  IF IsObj(x) /\ Cardinality(DOMAIN x.obj) = 1
    THEN LET k == CHOOSE k \in DOMAIN x.obj : TRUE IN <<k>> \o KeyChain(x.obj[k])
    ELSE <<>>

\* the text of the one leaf of the style object of an entry
LeafOf(entry) == ValueAt(entry.styles, KeyChain(entry.styles)).leaf

\* the classes of the class string, as the Set holds them
ClassesGiven == Dedupe(SplitClasses(classString))

\* the leaf paths the entries of a class set
PathsOfClass(cls) ==
  UNION {LeafPaths(EntriesOfClass(cls)[i].styles) : i \in DOMAIN EntriesOfClass(cls)}

\* the value the last entry of a class sets at a path
LastValueOfClass(cls, path) ==
  LET es == EntriesOfClass(cls)
      at == CHOOSE i \in DOMAIN es :
              /\ path \in LeafPaths(es[i].styles)
              /\ \A j \in DOMAIN es : j > i => path \notin LeafPaths(es[j].styles)
  IN ValueAt(es[at].styles, path)

\* C1: a class with the modifiers [m1, m2] that resolves to property p with
\* value v gets the style object {k(m1): {k(m2): {p: v}}}: the modifier
\* listed first is the outermost key.
C1_FirstModifierOutermost ==
  converted.pc = "returned" =>
    \A i \in DOMAIN converted.result.styles :
      LET e  == converted.result.styles[i]
          ms == e.match.classInfo.modifiers
      IN Len(ms) = 2 =>
           e.styles = Obj(conditionValue(ms[1]) :>
                        Obj(conditionValue(ms[2]) :>
                          Obj(e.match.propName :> Leaf(LeafOf(e)))))

\* C2: the style object of a class set has exactly the leaves its classes
\* set, and at every path the value is the one of the class that comes last
\* in the iteration order of the set among those that set the path.
C2_LaterClassWins ==
  converted.pc = "returned" /\ converted.result.hasPandaString =>
    LET classes == Filter(ClassesGiven, LAMBDA c :
                     ~isTailwindMarkerClass(c) /\ candidatesToCss(c).css)
        final   == converted.result.finalStyles
        all     == UNION {PathsOfClass(classes[i]) : i \in DOMAIN classes}
    IN /\ LeafPaths(final) = all
       /\ \A path \in all :
            LET last == CHOOSE i \in DOMAIN classes :
                          /\ path \in PathsOfClass(classes[i])
                          /\ \A j \in DOMAIN classes :
                               j > i => path \notin PathsOfClass(classes[j])
            IN ValueAt(final, path) = LastValueOfClass(classes[last], path)

\* two classes set backgroundColor, and the value of the second is the result
C2_Witness ==
  /\ converted.pc = "returned"
  /\ classString = <<"b","g","-","b","l","u","e","-","5","0","0"," ","b","g","-","r","e","d","-","5","0","0">>
  /\ converted.result.finalStyles =
       Obj(<<"b","a","c","k","g","r","o","u","n","d","C","o","l","o","r">> :> Leaf(<<"t","o","k","e","n","(","c","o","l","o","r","s",".","r","e","d",".","5","0","0",","," ","o","k","l","c","h","(","6","3",".","7","%"," ","0",".","2","3","7"," ","2","5",".","3","3","1",")",")">>))

\* the condition keys the modifiers of the model are to nest under
ExpectedConditionKey ==
  (<<"h","o","v","e","r">> :> <<"_","h","o","v","e","r">>) @@ (<<"d","i","s","a","b","l","e","d">> :> <<"_","d","i","s","a","b","l","e","d">>) @@ (<<"d","a","r","k">> :> <<"_","d","a","r","k">>)
  @@ (<<"m","d">> :> <<"m","d">>) @@ (<<"l","g">> :> <<"l","g">>) @@ (<<"g","r","o","u","p","-","h","o","v","e","r">> :> <<"_","g","r","o","u","p","H","o","v","e","r">>)
  @@ (<<"m","a","x","-","m","d">> :> <<"m","a","x","-","m","d">>)

\* C3: the condition key of a modifier m is "_" + camelCase(m) when the
\* condition set registers that name, else camelCase(m) when the condition set
\* registers it, else m itself; hover, disabled and dark nest under _hover,
\* _disabled and _dark, md and lg under md and lg.
C3_ConditionKey ==
  converted.pc = "returned" =>
    \A i \in DOMAIN converted.result.styles :
      LET e     == converted.result.styles[i]
          ms    == e.match.classInfo.modifiers
          chain == KeyChain(e.styles)
          keys  == SubSeq(chain, 1, Len(chain) - 1)
      IN /\ Len(keys) = Len(ms)
         /\ Range(keys) = {ExpectedConditionKey[ms[j]] : j \in DOMAIN ms}
         /\ \A j \in DOMAIN ms :
              LET camel == kebabToCamel(ms[j])
                  key   == ExpectedConditionKey[ms[j]]
              IN /\ (<<"_">> \o camel) \in ConditionValues => key = <<"_">> \o camel
                 /\ (<<"_">> \o camel) \notin ConditionValues /\ camel \in ConditionValues
                      => key = camel
                 /\ (<<"_">> \o camel) \notin ConditionValues /\ camel \notin ConditionValues
                      => key = ms[j]

\* a hover class and a breakpoint class are converted
C3_Witness ==
  /\ converted.pc = "returned"
  /\ classString = <<"h","o","v","e","r",":","b","g","-","b","l","u","e","-","5","0","0"," ","m","d",":","f","l","e","x">>
  /\ converted.result.finalStyles =
       Obj((<<"_","h","o","v","e","r">> :> Obj(<<"b","a","c","k","g","r","o","u","n","d","C","o","l","o","r">> :> Leaf(<<"t","o","k","e","n","(","c","o","l","o","r","s",".","b","l","u","e",".","5","0","0",","," ","#","3","b","8","2","f","6",")">>)))
           @@ (<<"m","d">> :> Obj(<<"d","i","s","p","l","a","y">> :> Leaf(<<"f","l","e","x">>))))

\* group, peer, group/<name>, peer/<name>
IsMarkerName(cls) ==
  \/ cls \in {<<"g","r","o","u","p">>, <<"p","e","e","r">>}
  \/ StartsWith(cls, <<"g","r","o","u","p","/">>) /\ Len(cls) > Len(<<"g","r","o","u","p","/">>)
  \/ StartsWith(cls, <<"p","e","e","r","/">>) /\ Len(cls) > Len(<<"p","e","e","r","/">>)

\* C4: the unconverted list of convertClassesToPandaString is exactly the
\* classes for which the resolver returns no CSS, without the marker classes;
\* and every leaf of the emitted style object comes from a class of the string
\* for which the resolver returned CSS.
C4_UnconvertedExact ==
  converted.pc = "returned" =>
    LET r == converted.result
    IN /\ Range(r.unconverted) =
            {c \in Range(ClassesGiven) : ~candidatesToCss(c).css /\ ~IsMarkerName(c)}
       /\ Len(r.unconverted) = Cardinality(Range(r.unconverted))
       /\ \A path \in LeafPaths(r.finalStyles) :
            \E c \in Range(ClassesGiven) :
              /\ candidatesToCss(c).css
              /\ path \in PathsOfClass(c)
              /\ ValueAt(r.finalStyles, path) = LastValueOfClass(c, path)

\* a named marker class, a custom class: only the custom class is unconverted
C4_Witness ==
  /\ converted.pc = "returned"
  /\ classString = <<"p","e","e","r","/","m","e","n","u"," ","b","t","n">>
  /\ converted.result.unconverted = <<<<"b","t","n">>>>

\* C5: a value is emitted as token(<category>.<tokenPath>, <literal>) exactly
\* when the token path differs from the literal, the literal is a usable
\* fallback and the property is in the category table; otherwise the literal
\* is emitted as it is.  bg-blue-500 (var(--color-blue-500), #3b82f6) gives
\* token(colors.blue.500, #3b82f6); bg-brand, whose variable resolves to
\* another variable, gives the var(...) text unwrapped.
C5_TokenWrapping ==
  converted.pc = "returned" =>
    \A i \in DOMAIN converted.result.styles :
      LET e       == converted.result.styles[i]
          m       == e.match
          wrapped == /\ m.tokenName # m.rawValue
                     /\ isResolvableValue(m.rawValue)
                     /\ m.propName \in DOMAIN PROP_TO_TOKEN_CATEGORY
      IN /\ wrapped =>
              LeafOf(e) = <<"t","o","k","e","n","(">> \o PROP_TO_TOKEN_CATEGORY[m.propName] \o <<".">>
                          \o m.tokenName \o <<","," ">> \o m.rawValue \o <<")">>
         /\ ~wrapped => LeafOf(e) = m.rawValue
         /\ m.classInfo.className = <<"b","g","-","b","l","u","e","-","5","0","0">>
              => LeafOf(e) = <<"t","o","k","e","n","(","c","o","l","o","r","s",".","b","l","u","e",".","5","0","0",","," ","#","3","b","8","2","f","6",")">>
         /\ m.classInfo.className = <<"b","g","-","b","r","a","n","d">> => LeafOf(e) = <<"v","a","r","(","-","-","c","o","l","o","r","-","b","r","a","n","d",")">>

\* the two examples of C5, converted
C5_Witness ==
  /\ converted.pc = "returned"
  /\ classString = <<"b","g","-","b","l","u","e","-","5","0","0"," ","b","g","-","b","r","a","n","d">>
  /\ Len(converted.result.styles) = 2
  /\ LeafOf(converted.result.styles[1]) = <<"t","o","k","e","n","(","c","o","l","o","r","s",".","b","l","u","e",".","5","0","0",","," ","#","3","b","8","2","f","6",")">>
  /\ LeafOf(converted.result.styles[2]) = <<"v","a","r","(","-","-","c","o","l","o","r","-","b","r","a","n","d",")">>

\* a class name without its important flag
WithoutFlag(className) ==
  LET parts == SplitVariants(className, 0, <<>>)
  IN Join([i \in DOMAIN parts |->
             IF i = Len(parts) THEN StripImportant(parts[i]) ELSE parts[i]], <<":">>)

\* C6: whenever a class without the important flag is emitted as
\* token(<cat>.<path>, <v>), the same class with the flag is emitted as
\* token(<cat>.<path>!, <v> !important).
C6_ImportantToken ==
  converted.pc = "returned" =>
    \A i \in DOMAIN converted.result.styles :
      LET e    == converted.result.styles[i]
          m    == e.match
          same == EntriesOfClass(WithoutFlag(m.classInfo.className))
      IN m.classInfo.isImportant =>
           \A j \in DOMAIN same :
             LET u == same[j].match
             IN /\ u.propName = m.propName
                /\ u.propName \in DOMAIN PROP_TO_TOKEN_CATEGORY
                /\ LeafOf(same[j]) = TokenReference(PROP_TO_TOKEN_CATEGORY[u.propName],
                                                    u.tokenName, u.rawValue)
                => LeafOf(e) = TokenReference(PROP_TO_TOKEN_CATEGORY[u.propName],
                                              u.tokenName \o <<"!">>,
                                              u.rawValue \o <<" ","!","i","m","p","o","r","t","a","n","t">>)

\* the css of the cache after the first n entries of the history: the key of
\* the last construction that succeeded, if no reset came after it
RECURSIVE KeyAfter(_)
KeyAfter(n) ==
  IF n = 0 THEN Null
  ELSE IF history[n].op = "clear" THEN Null
  ELSE IF history[n].constructed /\ ~history[n].threw
    THEN [css |-> history[n].css, context |-> history[n].context]
  ELSE KeyAfter(n - 1)

\* C7: with every call awaited before the next, a call of
\* createTailwindContext constructs a design system exactly when it is the
\* first call, the first after a reset, or its css differs from the key in
\* the cache; every other call returns the instance in the cache.
C7_ConstructOnlyOnChange ==
  NoCallPending =>
    \A n \in DOMAIN history :
      history[n].op = "create" =>
        LET before == KeyAfter(n - 1)
        IN IF before = Null \/ before.css # history[n].css
             THEN history[n].constructed
             ELSE ~history[n].constructed /\ history[n].context = before.context

\* a second call with the same css got the instance of the first
C7_Witness ==
  /\ Len(history) >= 2
  /\ history[1].op = "create" /\ history[1].constructed /\ ~history[1].threw
  /\ history[2].op = "create" /\ ~history[2].constructed
  /\ history[2].context = history[1].context

\* whether processFile fails for the file
FileFails(file, dryRun) ==
  \/ ~file.read
  \/ /\ file.ext \in DEFAULT_HTML_EXTENSIONS \cup DEFAULT_TS_EXTENSIONS
     /\ \/ file.convert = "throws"
        \/ file.convert = "changed" /\ ~dryRun /\ ~file.write

\* C8: when batchProcess has returned, every matched file has its own result,
\* the result of a file has status "error" and a message exactly when reading,
\* converting or writing that file failed, and total = success + errors +
\* skipped + unchanged = the number of matched files.
C8_PerFileError ==
  batch.pc = "returned" =>
    /\ Len(batch.results) = Len(batch.files)
    /\ \A i \in DOMAIN batch.files :
         /\ batch.results[i].inputPath.path = batch.files[i].path
         /\ batch.results[i].status = "error" <=> FileFails(batch.files[i], batch.dryRun)
         /\ batch.results[i].status = "error" <=> batch.results[i].error # ""
    /\ batch.summary.total = Len(batch.files)
    /\ batch.summary.total = batch.summary.success + batch.summary.errors
                             + batch.summary.skipped + batch.summary.unchanged

\* a batch of three files returned: the second could not be read, the third
\* could not be written, the first was converted
C8_Witness ==
  /\ batch.pc = "returned"
  /\ Len(batch.files) = 3
  /\ ~batch.dryRun
  /\ batch.files[2].path = "locked" /\ batch.files[3].path = "card"
  /\ batch.results[1].status = "success"
  /\ batch.results[2].status = "error"
  /\ batch.results[3].status = "error"
  /\ batch.summary.errors = 2

\* C9: when analyzeProject has returned, a file whose processing failed is
\* recorded in the returned analysis against that file and counted.
C9_FailureRecorded ==
  analysis.pc = "returned" =>
    \A i \in DOMAIN analysis.filePaths :
      analysis.filePaths[i].fails # "none" =>
        \E j \in DOMAIN analysis.files : analysis.files[j].filePath = analysis.filePaths[i].path

\* C10: every class of a class attribute rewriteHtmlToPanda handles
\* contributes to the style object of the attribute, or is kept in its
\* className list, or is listed in unconvertedClasses.
C10_EveryClassAccounted ==
  htmlResult.pc = "returned" =>
    \A a \in DOMAIN htmlResult.result.classMatches :
      LET replacement == htmlResult.result.replacements[a]
      IN \A c \in Range(Dedupe(SplitClasses(htmlResult.result.classMatches[a]))) :
           \/ replacement.kind = "none"
           \/ c \in Range(replacement.kept)
           \/ c \in Range(htmlResult.result.unconvertedClasses)
           \/ /\ replacement.kind \in {"css", "cx"}
              /\ PathsOfClass(c) # {}

(***************************************************************************)
(* batchProcess: dry run and chunks                                        *)
(***************************************************************************)

\* C11: with dryRun set, batchProcess calls neither mkdir nor writeFile for
\* any file, and every file that can be read and converted is reported with
\* its converted content and the status of the conversion.
C11_DryRunWritesNothing ==
  batch.dryRun =>
    /\ disk.dirs = {} /\ disk.files = {}
    /\ \A k \in DOMAIN tasks : tasks[k].pc \notin {"mkdir", "writeFile"}
    /\ batch.pc = "returned" =>
         \A i \in DOMAIN batch.files :
           /\ batch.files[i].read
           /\ batch.files[i].ext \in DEFAULT_HTML_EXTENSIONS \cup DEFAULT_TS_EXTENSIONS
           /\ batch.files[i].convert # "throws"
           => /\ batch.results[i].converted
              /\ batch.results[i].status =
                   IF batch.files[i].convert = "changed" THEN "success" ELSE "unchanged"

\* a dry run over a file whose writeFile would fail returned: the file is
\* reported as converted
C11_Witness ==
  /\ batch.dryRun
  /\ batch.pc = "returned"
  /\ \E i \in DOMAIN batch.files :
       /\ batch.files[i].path = "card"
       /\ batch.results[i].status = "success"
       /\ batch.results[i].converted
  /\ disk.files = {}

\* the position of a file in the list of matched files
FileIndex(path) == CHOOSE i \in DOMAIN batch.files : batch.files[i].path = path

\* the number of the chunk the i-th matched file belongs to
ChunkOf(i) == (i - 1) \div batch.concurrency

\* C12: the matched files are processed in consecutive chunks of size
\* concurrency: the chunk in flight is the next concurrency files of the list
\* (fewer at the end), a file starts processing only after every file of the
\* chunks before its own has produced its result, and the results are in the
\* order of the matched files.
C12_ChunksInOrder ==
  /\ batch.pc = "awaiting" =>
       /\ Len(batch.chunk) >= 1
       /\ Len(batch.chunk) <= batch.concurrency
       /\ Len(batch.chunk) = batch.concurrency \/ batch.chunks = <<>>
       /\ batch.chunk = SubSeq(batch.files, Len(batch.results) + 1,
                               Len(batch.results) + Len(batch.chunk))
       /\ Len(batch.results) % batch.concurrency = 0
  /\ batch.pc \in {"awaiting", "loop", "returned"} =>
       /\ \A p \in DOMAIN batch.progress :
            batch.progress[p].status = "processing" =>
              \A i \in DOMAIN batch.files :
                ChunkOf(i) < ChunkOf(FileIndex(batch.progress[p].current)) =>
                  \E q \in 1..(p - 1) :
                    /\ batch.progress[q].current = batch.files[i].path
                    /\ batch.progress[q].status # "processing"
       /\ \A i \in DOMAIN batch.results :
            batch.results[i].inputPath.path = batch.files[i].path
  /\ batch.pc = "returned" => Len(batch.results) = Len(batch.files)

\* three files went through two chunks of two and one
C12_Witness ==
  /\ batch.pc = "returned"
  /\ batch.concurrency = 2
  /\ Len(batch.files) = 3
  /\ Len(batch.results) = 3
  /\ Len(batch.progress) = 6
  /\ batch.progress[5].status = "processing"
  /\ batch.progress[5].current = batch.files[3].path

(***************************************************************************)
(* analyzeProject: patterns                                                *)
(***************************************************************************)

\* the pattern id of an analyzed file, <<>> when the file adds to no pattern
\* (it cannot be processed, or none of its classes gives a style)
PatternIdOfFile(file) ==
  LET classes == extractClassesFromFile(file).converted
  IN IF file.fails # "none" \/ classes = <<>> \/ twClassListToPandaStyles(classes) = <<>>
       THEN <<>>
       ELSE generatePatternId(classes)

\* the number of analyzed files in which the pattern was seen
TimesSeen(id) ==
  Cardinality({i \in DOMAIN analysis.filePaths :
                 PatternIdOfFile(analysis.filePaths[i]) = id})

\* C13: when analyzeProject has returned, a pattern is among the returned
\* patterns exactly when it was seen at least minPatternCount times: one seen
\* minPatternCount - 1 times is absent, one seen minPatternCount times is
\* present, with its count.
C13_PatternThreshold ==
  analysis.pc = "returned" =>
    /\ \A i \in DOMAIN analysis.filePaths :
         LET id == PatternIdOfFile(analysis.filePaths[i])
         IN id # <<>> =>
              /\ TimesSeen(id) >= analysis.minPatternCount <=>
                   \E j \in DOMAIN analysis.patterns : analysis.patterns[j].id = id
              /\ TimesSeen(id) = analysis.minPatternCount - 1 =>
                   \A j \in DOMAIN analysis.patterns : analysis.patterns[j].id # id
    /\ \A j \in DOMAIN analysis.patterns :
         /\ analysis.patterns[j].count = TimesSeen(analysis.patterns[j].id)
         /\ analysis.patterns[j].count >= analysis.minPatternCount
         /\ \A k \in DOMAIN analysis.patterns :
              analysis.patterns[k].id = analysis.patterns[j].id => k = j

\* with minPatternCount 2, a pattern seen in two files is returned and one
\* seen in one file is not
C13_Witness ==
  /\ analysis.pc = "returned"
  /\ analysis.minPatternCount = 2
  /\ Len(analysis.patterns) = 1
  /\ analysis.patterns[1].count = 2
  /\ Len(analysis.classPatterns) = 2

\* twice the size of the intersection of two class lists, to compare with
\* the size of their union
TwiceShared(a, b) == 2 * Cardinality(Range(a) \cap Range(b))

\* the classes two class lists have together
UnionSize(a, b) == Cardinality(Range(a) \cup Range(b))

\* two patterns are members of one group of the clustering step
SameGroup(p, q) ==
  \E g \in DOMAIN inference.groups :
    p \in Range(inference.groups[g]) /\ q \in Range(inference.groups[g])

\* C14: once the clustering step has run, two patterns whose class sets have
\* Jaccard similarity exactly 0.5 are in the same group, and no two patterns
\* of similarity below 0.5 are in the same group.
C14_ClusteringBoundary ==
  inference.pc \in {"loop", "returned"} /\ Len(inference.patterns) >= 2 =>
    \A i, j \in DOMAIN inference.patterns :
      LET p == inference.patterns[i]
          q == inference.patterns[j]
      IN i # j =>
           /\ TwiceShared(p.classes, q.classes) = UnionSize(p.classes, q.classes)
                => SameGroup(p, q)
           /\ TwiceShared(p.classes, q.classes) < UnionSize(p.classes, q.classes)
                => ~SameGroup(p, q)

\* a member of a group has a style, under a top-level key of the dimension,
\* that the members of the group do not all share
VariesIn(group, i, dimension) ==
  \E k \in DOMAIN group[i].styles.obj :
    /\ DimensionOf(k) = dimension
    /\ \E j \in DOMAIN group :
         k \notin DOMAIN group[j].styles.obj \/ group[j].styles.obj[k] # group[i].styles.obj[k]

\* at least two members of a group vary in one same dimension
HasVariedDimension(group) ==
  \E dimension \in {"size", "variant", "style"} :
    Cardinality({i \in DOMAIN group : VariesIn(group, i, dimension)}) >= 2

\* the groups among the first n that have a varied dimension, in order
RECURSIVE VariedGroups(_, _)
VariedGroups(groups, n) ==
  IF n = 0 THEN <<>>
  ELSE VariedGroups(groups, n - 1)
       \o (IF HasVariedDimension(groups[n]) THEN <<groups[n]>> ELSE <<>>)

HasLeaf(styles, path, value) ==
  path \in LeafPaths(styles) /\ ValueAt(styles, path) = value

\* C16: in a recipe, a leaf path of the style object of a member belongs to
\* base if and only if every member has a deep-equal value at that path;
\* every other leaf of a member is in the diff of that member.
C16_BaseIsCommonLeaves ==
  \A r \in DOMAIN inference.recipes :
    LET recipe  == inference.recipes[r]
        members == recipe.sourcePatterns
    IN \A m \in DOMAIN members :
         \A path \in LeafPaths(members[m].styles) :
           LET value == ValueAt(members[m].styles, path)
           IN /\ HasLeaf(recipe.base, path, value)
                   <=> \A n \in DOMAIN members : HasLeaf(members[n].styles, path, value)
              /\ ~HasLeaf(recipe.base, path, value)
                   => HasLeaf(StyleDiff(members[m].styles, recipe.base), path, value)

\* C17: a variant axis (size, variant, style) is present in a recipe only if
\* the group yields at least two distinct diff values for that axis.
C17_AxisHasTwoValues ==
  \A r \in DOMAIN inference.recipes :
    \A dimension \in DOMAIN inference.recipes[r].variants :
      Cardinality({inference.recipes[r].variants[dimension][i] :
                     i \in DOMAIN inference.recipes[r].variants[dimension]}) >= 2

\* C18: in the reports of analyzeProject, a marker class (group, peer,
\* group/<name>, peer/<name>) found in a file is never listed in the
\* unconvertedClasses of the file nor counted in summary.unconvertedClasses.
C18_MarkersNotUnconverted ==
  /\ \A f \in DOMAIN analysis.fileAnalyses :
       \A cls \in Range(analysis.fileAnalyses[f].unconvertedClasses) :
         ~isTailwindMarkerClass(cls)
  /\ analysis.pc = "returned" =>
       analysis.unconvertedClasses =
         Cardinality({cls \in UNION {Range(analysis.files[f].classes) :
                                        f \in DOMAIN analysis.files} :
                        /\ ~isTailwindMarkerClass(cls)
                        /\ ~candidatesToCss(cls).css})

\* what the padding of p-4, `calc(var(--spacing) * 4)`, is to become under
\* the theme: token path 4 and 4 times the base in the unit of the base, or
\* the text of the declaration, unwrapped, when the theme has no base
ExpectedPadding ==
  CASE themeSpacing = [found |-> TRUE, value |-> <<"0",".","2","5","r","e","m">>] -> <<"t","o","k","e","n","(","s","p","a","c","i","n","g",".","4",","," ","1","r","e","m",")">>
    [] themeSpacing = [found |-> TRUE, value |-> <<"4","p","x">>] -> <<"t","o","k","e","n","(","s","p","a","c","i","n","g",".","4",","," ","1","6","p","x",")">>
    [] ~themeSpacing.found -> <<"c","a","l","c","(","v","a","r","(","-","-","s","p","a","c","i","n","g",")"," ","*"," ","4",")">>

\* C19: for a declaration value calc(var(--spacing) * N) the token path is N
\* and the literal is N times the base spacing in the unit of the base; when
\* the base spacing cannot be resolved the value is emitted as the calc(...)
\* text, unwrapped.
C19_SpacingLiteral ==
  converted.pc = "returned" /\ <<"p","-","4">> \in Range(ClassesGiven) =>
    /\ <<"p","a","d","d","i","n","g">> \in DOMAIN converted.result.finalStyles.obj
    /\ converted.result.finalStyles.obj[<<"p","a","d","d","i","n","g">>] = Leaf(ExpectedPadding)

\* the style object analyzeProject merges for a file of its report
MergedStylesOf(file) ==
  LET styles == twClassListToPandaStyles(file.convertedClasses)
  IN mergeCss([i \in DOMAIN styles |-> styles[i].styles])

\* the leaves token(<name>, <fallback>) of the merged style object of a
\* file, as pairs of the path of the leaf and the text of the leaf
TokenLeavesOf(file) ==
  {<<path, ValueAt(MergedStylesOf(file), path).leaf>> :
     path \in {p \in LeafPaths(MergedStylesOf(file)) :
                 LET text == ValueAt(MergedStylesOf(file), p).leaf
                 IN /\ StartsWith(text, <<"t","o","k","e","n","(">>)
                    /\ text[Len(text)] = ")"
                    /\ Includes(text, <<","," ">>)}}

\* <category>.<path> of a leaf token(<category>.<path>, <fallback>)
NameOfReference(text) == SubSeq(text, Len(<<"t","o","k","e","n","(">>) + 1, IndexOf(text, <<","," ">>) - 1)

\* <fallback> of a leaf token(<category>.<path>, <fallback>), as written
FallbackOfReference(text) == SubSeq(text, IndexOf(text, <<","," ">>) + 2, Len(text) - 1)

\* the occurrences of a token in the files of the report: the index of the
\* file, the path of the leaf and its text
OccurrencesOf(name) ==
  {occ \in UNION {{<<f, leaf[1], leaf[2]>> : leaf \in TokenLeavesOf(analysis.files[f])} :
                    f \in DOMAIN analysis.files} :
     NameOfReference(occ[3]) = name}

\* C20: for every token reference token(<category>.<path>, <fallback>) in the
\* merged style object of a file, the token index analyzeProject returns has
\* one entry of that category and path; its value is the fallback as
\* written, its count the number of occurrences across the files, and its
\* files are the contributing files, each once.
C20_TokenIndex ==
  analysis.pc = "returned" =>
    \A f \in DOMAIN analysis.files :
      \A leaf \in TokenLeavesOf(analysis.files[f]) :
        LET name    == NameOfReference(leaf[2])
            entries == {i \in DOMAIN analysis.tokens :
                          analysis.tokens[i].category \o <<".">> \o analysis.tokens[i].path
                            = name}
        IN /\ Cardinality(entries) = 1
           /\ \A i \in entries :
                /\ analysis.tokens[i].value = FallbackOfReference(leaf[2])
                /\ analysis.tokens[i].count = Cardinality(OccurrencesOf(name))
                /\ Range(analysis.tokens[i].files)
                     = {analysis.files[occ[1]].filePath : occ \in OccurrencesOf(name)}
                /\ Len(analysis.tokens[i].files)
                     = Cardinality(Range(analysis.tokens[i].files))


\* the text of a class name before its first dash
TextBeforeDash(cls) ==
  IF IndexOf(cls, <<"-">>) = 0 THEN cls ELSE SubSeq(cls, 1, IndexOf(cls, <<"-">>) - 1)

\* how many class names of the source patterns of a recipe have the prefix
PrefixCount(recipe, prefix) ==
  LET members == recipe.sourcePatterns
  IN Cardinality({<<m, c>> \in UNION {{<<m, c>> : c \in DOMAIN members[m].classes} :
                                        m \in DOMAIN members} :
                    TextBeforeDash(members[m].classes[c]) = prefix})

\* the prefixes of the class names of the source patterns of a recipe
PrefixesOf(recipe) ==
  {TextBeforeDash(recipe.sourcePatterns[m].classes[c]) :
     <<m, c>> \in UNION {{<<m, c>> : c \in DOMAIN recipe.sourcePatterns[m].classes} :
                           m \in DOMAIN recipe.sourcePatterns}}

\* C21: the name of a recipe is the most frequent prefix (the text before
\* the first dash) among the class names of its source patterns, and is
\* component when no prefix occurs more than once.
C21_RecipeName ==
  \A r \in DOMAIN inference.recipes :
    LET recipe == inference.recipes[r]
    IN IF \A prefix \in PrefixesOf(recipe) : PrefixCount(recipe, prefix) <= 1
         THEN recipe.name = <<"c","o","m","p","o","n","e","n","t">>
         ELSE /\ recipe.name \in PrefixesOf(recipe)
              /\ \A prefix \in PrefixesOf(recipe) :
                   PrefixCount(recipe, prefix) <= PrefixCount(recipe, recipe.name)

\* no reset has completed
NeverCleared == \A i \in DOMAIN history : history[i].op # "clear"

\* the two callers are at their await for the same CSS
Overlapping(p, q) ==
  /\ p # q
  /\ calls[p].pc = "loading" /\ calls[q].pc = "loading"
  /\ calls[p].css = calls[q].css

\* C23: two calls of createTailwindContext with the same configuration that
\* overlap, with no reset, construct one design system that both receive;
\* and whenever the cache is populated, the cached instance is the one built
\* from the cached key.
C23_OverlapBuildsOnce ==
  /\ \A p, q \in Callers :
       Overlapping(p, q) /\ NeverCleared => calls[p].designSystem = calls[q].designSystem
  /\ cachedDesignSystem # Null =>
       /\ cachedCss # Null
       /\ cachedDesignSystem.css = cachedCss.css

\* the files for which a progress event with the index n was emitted
FilesReportedAt(n) ==
  {batch.progress[i].current : i \in {j \in DOMAIN batch.progress : batch.progress[j].index = n}}

\* C24: every progress event of batchProcess, "processing" or completion,
\* carries as index the 1-based position of its file among the matched files,
\* and after the run every index in 1..total was reported for exactly one
\* file.
C24_ProgressIndex ==
  /\ \A i \in DOMAIN batch.progress :
       batch.progress[i].index = FileIndex(batch.progress[i].current)
  /\ batch.pc = "returned" =>
       \A n \in 1..Len(batch.files) : Cardinality(FilesReportedAt(n)) = 1

\* C30: batchProcess returns, with one result for each matched file, for every
\* value of the concurrency option, zero and the negative numbers included.
C30_Terminates == <>(batch.pc = "returned" /\ Len(batch.results) = Len(batch.files))

\* the reports of the files scanned so far that were tracked as a pattern
\* (some class of the file gives a style) and whose converted classes are
\* the set given, in the order of the scan
SightingsOf(classSet) ==
  SelectSeq(analysis.fileAnalyses,
            LAMBDA f : /\ f.convertedClasses # <<>>
                       /\ twClassListToPandaStyles(f.convertedClasses) # <<>>
                       /\ Range(f.convertedClasses) = classSet)

\* C25: in every state of analyzeProject the pattern map has one entry for
\* each class set sighted so far, whatever the order of the classes in the
\* files; the entry has the classes and the styles of the first sighting, a
\* count that is the number of files it was sighted in, and these files in
\* the order of the scan, none twice.
C25_PatternEntries ==
  /\ \A i \in DOMAIN analysis.classPatterns :
       LET p == analysis.classPatterns[i]
           seen == SightingsOf(Range(p.classes))
       IN /\ seen # <<>>
          /\ p.classes = seen[1].convertedClasses
          /\ p.styles = MergedStylesOf(seen[1])
          /\ p.count = Len(seen)
          /\ p.count = Len(p.files)
          /\ p.files = [k \in DOMAIN seen |-> seen[k].filePath]
          /\ \A k, l \in DOMAIN p.files : p.files[k] = p.files[l] => k = l
  /\ \A j \in DOMAIN analysis.fileAnalyses :
       SightingsOf(Range(analysis.fileAnalyses[j].convertedClasses)) # <<>> =>
         Cardinality({i \in DOMAIN analysis.classPatterns :
                        Range(analysis.classPatterns[i].classes) =
                          Range(analysis.fileAnalyses[j].convertedClasses)}) = 1

\* a class set was sighted in two files that list its classes in two orders,
\* and again in neither order
C25_Witness ==
  \E i \in DOMAIN analysis.classPatterns :
    /\ analysis.classPatterns[i].count = 2
    /\ Len(analysis.classPatterns[i].classes) = 2
    /\ \E j \in DOMAIN analysis.fileAnalyses :
         /\ Range(analysis.fileAnalyses[j].convertedClasses) =
              Range(analysis.classPatterns[i].classes)
         /\ analysis.fileAnalyses[j].convertedClasses # analysis.classPatterns[i].classes
         /\ analysis.fileAnalyses[j].filePath = analysis.classPatterns[i].files[2]

\* The token index, the pattern map and the reports analyzeProject has after
\* the files given, all of them processed without a throw, starting from acc
RECURSIVE ScanOf(_, _)
ScanOf(files, acc) ==
  IF files = <<>> THEN acc
  ELSE LET extracted == extractClassesFromFile(Head(files))
           styles == twClassListToPandaStyles(extracted.converted)
           parts == [i \in DOMAIN styles |-> styles[i].styles]
           tracked == extracted.converted # <<>> /\ styles # <<>>
       IN ScanOf(Tail(files),
            [allTokens |->
               IF tracked
                 THEN extractTokensFromStyles(mergeCss(parts), parts, Head(files).path,
                                              acc.allTokens)
                 ELSE acc.allTokens,
             classPatterns |->
               IF tracked
                 THEN TrackPattern(acc.classPatterns, extracted.converted, mergeCss(parts),
                                   Head(files).path)
                 ELSE acc.classPatterns,
             fileAnalyses |->
               Append(acc.fileAnalyses,
                      [filePath           |-> Head(files).path,
                       classes            |-> extracted.classes,
                       convertedClasses   |-> extracted.converted,
                       unconvertedClasses |-> extracted.unconverted])])

\* the files scanned so far without those of which a step throws
ScannedWithoutFailed ==
  SelectSeq(SubSeq(analysis.filePaths, 1, analysis.next - 1), LAMBDA f : f.fails = "none")

\* C29: in every state of analyzeProject the token index, the pattern map
\* and the per-file reports are what a scan of the files scanned so far
\* without the files whose processing threw gives.
C29_FailedFileLeavesNothing ==
  analysis.pc \in {"loop", "returned"} =>
    LET expected == ScanOf(ScannedWithoutFailed,
                           [allTokens |-> <<>>, classPatterns |-> <<>>, fileAnalyses |-> <<>>])
    IN /\ analysis.allTokens = expected.allTokens
       /\ analysis.classPatterns = expected.classPatterns
       /\ analysis.fileAnalyses = expected.fileAnalyses

\* a file whose processing threw was scanned between two files that share a
\* pattern
C29_Witness ==
  /\ analysis.pc = "returned"
  /\ Len(analysis.filePaths) = 3
  /\ analysis.filePaths[2].fails = "extract"
  /\ analysis.warnings = <<analysis.filePaths[2].path>>
  /\ Len(analysis.fileAnalyses) = 2
  /\ Len(analysis.classPatterns) = 1
  /\ analysis.classPatterns[1].count = 2
  /\ analysis.allTokens # <<>>

\* the i-th and the j-th pattern given share more than half of the classes
\* they have together
AboveThreshold(i, j) ==
  TwiceShared(inference.patterns[i].classes, inference.patterns[j].classes)
    > UnionSize(inference.patterns[i].classes, inference.patterns[j].classes)

\* the i-th pattern given opens a group: no pattern before it that opens a
\* group is above the threshold with it
RECURSIVE IsSeed(_)
IsSeed(i) == \A j \in 1..(i - 1) : IsSeed(j) => ~AboveThreshold(j, i)

\* the patterns the seed s absorbs: those after it, not seeds, of which s is
\* the first seed above the threshold, in the order given
AbsorbedBy(s) ==
  SelectSeq([k \in 1..(Len(inference.patterns) - s) |-> s + k],
            LAMBDA i : /\ ~IsSeed(i)
                       /\ AboveThreshold(s, i)
                       /\ \A j \in 1..(s - 1) : IsSeed(j) => ~AboveThreshold(j, i))

\* the seeds that absorb a pattern, in the order given
GroupSeeds ==
  SelectSeq([i \in DOMAIN inference.patterns |-> i],
            LAMBDA s : IsSeed(s) /\ AbsorbedBy(s) # <<>>)

\* C26: the clustering step is one pass in the order given: every pattern is
\* in at most one group; a group is its seed followed by the patterns that
\* are above the threshold with the seed and with no earlier seed, whatever
\* their similarity to each other; a seed that absorbs nothing gives no group
\* and is in no group.
C26_SinglePassClustering ==
  inference.pc \in {"loop", "returned"} /\ Len(inference.patterns) >= 2 =>
    /\ Len(inference.groups) = Len(GroupSeeds)
    /\ \A g \in DOMAIN inference.groups :
         /\ Len(inference.groups[g]) >= 2
         /\ inference.groups[g] =
              <<inference.patterns[GroupSeeds[g]]>> \o
              [k \in DOMAIN AbsorbedBy(GroupSeeds[g]) |->
                 inference.patterns[AbsorbedBy(GroupSeeds[g])[k]]]
    /\ \A i \in DOMAIN inference.patterns :
         Cardinality({<<g, k>> \in (DOMAIN inference.groups) \X (1..Len(inference.patterns)) :
                        /\ k \in DOMAIN inference.groups[g]
                        /\ inference.groups[g][k] = inference.patterns[i]})
           = IF IsSeed(i) /\ AbsorbedBy(i) = <<>> THEN 0 ELSE 1

\* the third pattern is above the threshold with the first and with the
\* second, which are below it with each other: it joined the group of the
\* first, and the second, alone, is in no group
C26_Witness ==
  /\ inference.pc = "returned"
  /\ Len(inference.patterns) = 3
  /\ AboveThreshold(1, 3) /\ AboveThreshold(2, 3) /\ ~AboveThreshold(1, 2)
  /\ inference.groups = <<<<inference.patterns[1], inference.patterns[3]>>>>

(***************************************************************************)
(* rewriteTwFileContentToPanda                                             *)
(***************************************************************************)

\* a class is convertible: it is no marker class and the resolver has CSS
\* for it
IsConvertible(cls) == ~isTailwindMarkerClass(cls) /\ candidatesToCss(cls).css

\* The class-bearing strings of the file given to rewriteTwFileContentToPanda,
\* each as the index of its first node and its text: the string literals
\* outside export declarations, and the template literals, whose text is
\* that of the head and of the tail
ClassBearingStrings ==
  LET nodes == rewrite.content.nodes
      TailOf(i) == CHOOSE j \in (i + 1)..Len(nodes) :
                     /\ nodes[j].kind = "TemplateTail"
                     /\ \A k \in (i + 1)..(j - 1) : nodes[k].kind # "TemplateTail"
  IN {[node |-> i, text |-> nodes[i].text] :
        i \in {k \in DOMAIN nodes : nodes[k].kind = "StringLiteral" /\ ~nodes[k].skipped}}
     \cup
     {[node |-> i, text |-> nodes[i].text \o nodes[TailOf(i)].text] :
        i \in {k \in DOMAIN nodes : nodes[k].kind = "TemplateHead"}}

\* C22: the output of rewriteTwFileContentToPanda begins with an import of
\* css from the styled-system css module, which imports cx as well whenever a
\* cx( call was emitted, and resultList has exactly one entry for each
\* class-bearing string of the file that has a convertible class.
C22_ImportsAndResults ==
  rewrite.pc = "returned" =>
    LET out == rewrite.result.output
        resultList == rewrite.result.resultList
        bearing == {s \in ClassBearingStrings :
                      \E cls \in Range(SplitOnSpace(s.text)) : IsConvertible(cls)}
    IN /\ out.importLines # <<>>
       /\ out.importLines[1] \in {<<"i","m","p","o","r","t"," ","{"," ","c","s","s"," ","}"," ","f","r","o","m"," ","'",".",".","/","s","t","y","l","e","d","-","s","y","s","t","e","m","/","c","s","s","'",";">>,
                                  <<"i","m","p","o","r","t"," ","{"," ","c","s","s",","," ","c","x"," ","}"," ","f","r","o","m"," ","'",".",".","/","s","t","y","l","e","d","-","s","y","s","t","e","m","/","c","s","s","'",";">>}
       /\ (\E i \in DOMAIN out.nodes :
             out.nodes[i].kind = "Emitted" /\ out.nodes[i].edit.call \in {"cx", "cx("})
            => out.importLines[1] = <<"i","m","p","o","r","t"," ","{"," ","c","s","s",","," ","c","x"," ","}"," ","f","r","o","m"," ","'",".",".","/","s","t","y","l","e","d","-","s","y","s","t","e","m","/","c","s","s","'",";">>
       /\ Len(resultList) = Cardinality(bearing)
       /\ \A s \in bearing :
            Cardinality({r \in DOMAIN resultList : resultList[r].node = s.node}) = 1

\* a class of the saved file that the converter gives a style for
SavedHasConvertibleClass ==
  \E i \in DOMAIN watch.saved.nodes :
    /\ ~watch.saved.nodes[i].skipped
    /\ watch.saved.nodes[i].kind \in {"StringLiteral", "TemplateHead"}
    /\ \E cls \in Range(SplitOnSpace(watch.saved.nodes[i].text)) : IsConvertible(cls)

\* C28: in watch mode without an output directory the conversion in place
\* reaches a fixed point: the rewriter gives the file processFile wrote back
\* unchanged, so the change event of that write leads to no further write, and
\* a file with no convertible class is never written.
C28_FixedPoint ==
  /\ watch.writes >= 1 =>
       rewriteTwFileContentToPanda(watch.content).output = watch.content
  /\ watch.writes <= 1
  /\ ~SavedHasConvertibleClass => watch.writes = 0

\* the trimmed answer the wizard got to a prompt, in a set: empty when the
\* prompt was not asked
AnswersTo(question) ==
  {wizard.answers[i].answer : i \in {j \in DOMAIN wizard.answers :
                                       wizard.answers[j].question = question}}

\* the parts of C27 that do not speak of the answer at the apply prompt: a
\* file is written in the apply step only and after a preview that reported
\* a convertible file; the answer n at the file selection ends the run with
\* no later step; rl is closed when runInteractive has returned or thrown
WizardOtherParts ==
  /\ \A w \in wizard.written :
       /\ w.step = "applyStep"
       /\ wizard.previewResult # <<>>
       /\ wizard.previewResult[1].success >= 1
       /\ \E i, j \in DOMAIN wizard.steps :
            i < j /\ wizard.steps[i] = "previewStep" /\ wizard.steps[j] = "applyStep"
  /\ <<"n">> \in AnswersTo("convertAll") =>
       /\ wizard.pc = "returned"
       /\ wizard.steps = <<"showWelcome", "analyzeStep", "selectFilesStep">>
       /\ wizard.written = {}
  /\ wizard.pc \in {"returned", "threw"} => ~wizard.rlOpen
  /\ wizard.pc \notin {"returned", "threw"} => wizard.rlOpen

\* C27: in the wizard a file is written only in the apply step, after a
\* preview that reported at least one convertible file and after the user
\* answered exactly yes at the apply prompt; the answer n at the file
\* selection ends the run with no later step, and the readline interface is
\* closed on every exit path.
C27_WritesOnlyAfterYes ==
  /\ WizardOtherParts
  /\ wizard.written # {} => AnswersTo("apply") = {<<"y","e","s">>}

\* C27 as it holds: the answer at the apply prompt is yes in any letter case.
C27_WritesOnlyAfterYesAnyCase ==
  /\ WizardOtherParts
  /\ wizard.written # {} =>
       \E answer \in AnswersTo("apply") :
         /\ AnswersTo("apply") = {answer}
         /\ Len(answer) = 3
         /\ answer[1] \in {"y", "Y"} /\ answer[2] \in {"e", "E"} /\ answer[3] \in {"s", "S"}

\* the wizard has returned after it wrote a file on an answer that is not
\* the text yes
C27_Witness ==
  /\ wizard.pc = "returned"
  /\ ~wizard.rlOpen
  /\ wizard.written # {}
  /\ <<"y","e","s">> \notin AnswersTo("apply")

====
